---- MODULE Spec2Model ----
(***************************************************************************)
(* Model of the product-analysis backend: the harm score calculator        *)
(* (domain/harm_calculator.py) and the /analyze pipeline                   *)
(* (api/routes/analyze.py) with its collaborators.                         *)
(*                                                                         *)
(* Numbers.  Python floats are modelled in fixed point:                    *)
(*   - a confidence is an integer number of hundredths (0.4 is 40);        *)
(*   - a category multiplier is an integer number of hundredths (1.4 is    *)
(*     140);                                                               *)
(*   - base_score is kept in units of 1/10000 point once the multiplier    *)
(*     has been applied.                                                   *)
(* Texts (product names, keywords) are sequences of one-character strings, *)
(* so that str.lower() and the substring test `kw in text` are computed.   *)
(* A Python dict is a TLA+ record; dict.get(k, default) is Get(d, k, def). *)
(***************************************************************************)
EXTENDS Integers, Sequences, FiniteSets, TLC

VARIABLES
    calc_data,    \* calculator harness: the dict handed to calculate
    calc_score,   \* calculator harness: what calculate returned for calc_data
    calc_op,      \* calculator harness: the last change made to calc_data
    now,              \* datetime.utcnow(), one tick per arriving request
    db_available,     \* db.is_available
    product_analyses, \* the product_analyses table: url hash -> row or None
    pc,               \* per request: where analyze_product stands
    request,          \* per request: the AnalysisRequest
    cached_analysis,  \* per request: what get_cached_analysis returned
    scrape_result,    \* per request: what the scraper's scrape() returned
    allergen_db,      \* per request: the allergen knowledge base loaded
    pfas_db,          \* per request: the PFAS knowledge base loaded
    product_data,     \* per request: what extract_product_data returned
    basic_analysis,   \* per request: the database-only matching result
    ai_payload,       \* per request: what the agent call returned (parsed)
    analysis_data,    \* per request: the dict that is scored
    harm_score,       \* per request: HarmScoreCalculator.calculate's result
    analysis,         \* per request: the ProductAnalysis built
    response,         \* per request: what the caller receives
    events,           \* per request: the stages and calls of the run, in order
    merge_basic,  \* merge harness: the database matches handed to the merge
    merge_ai,     \* merge harness: the AI payload handed to the merge
    merge_out,    \* merge harness: what the merge made of the two
    rv_pc,          \* reviews request: where get_review_insights stands
    rv_request,     \* reviews request: url_hash and force_refresh
    rv_product_url, \* reviews request: the URL recovered from the cached analysis
    rv_scraped,     \* reviews request: what try_scrape returned
    rv_data,        \* reviews request: what extract_review_insights returned
    rv_response,    \* reviews request: what the caller receives
    rv_events,      \* reviews request: the calls of the run, in order
    review_insights \* the review insights the store holds: url hash -> dict or None

calc_vars == <<calc_data, calc_score, calc_op>>

store_vars == <<now, db_available, product_analyses>>

run_vars == <<pc, request, cached_analysis, scrape_result, allergen_db, pfas_db,
              product_data, basic_analysis, ai_payload, analysis_data,
              harm_score, analysis, response, events>>

merge_vars == <<merge_basic, merge_ai, merge_out>>

review_vars == <<rv_pc, rv_request, rv_product_url, rv_scraped, rv_data,
                 rv_response, rv_events, review_insights>>

vars == <<calc_vars, store_vars, run_vars, merge_vars, review_vars>>

----------------------------------------------------------------------------
(* Bounds of the model *)

\* most detections (all three categories together) in one calculator input
MaxDet == 2

\* the clock stops here: at most MaxTime requests arrive
MaxTime == 2

\* most detections in the two inputs of the merge harness together
MaxMerge == 4

----------------------------------------------------------------------------
(* Python helpers *)

\* dict.get(k, default)
Get(d, k, default) == IF k \in DOMAIN d THEN d[k] ELSE default

\* d[k] = v
Put(d, k, v) == [x \in (DOMAIN d) \cup {k} |-> IF x = k THEN v ELSE d[x]]

Min(a, b) == IF a <= b THEN a ELSE b

\* Python's None where a dict or an object is expected
None == [is_none |-> TRUE]

IsNone(x) == "is_none" \in DOMAIN x

\* Python's None where a plain string is expected
NoneStr == "<None>"

\* no score calculated yet
NoScore == 0 - 1

\* how often e occurs in the sequence s
Count(s, e) == Cardinality({i \in DOMAIN s : s[i] = e})

\* int(x) on a float: truncation toward zero; x is in units of 1/unit
Trunc(x, unit) == IF x >= 0 THEN x \div unit ELSE 0 - ((0 - x) \div unit)

UpperLetters == <<"A","B","C","D","E","F","G","H","I","J","K","L","M",
                  "N","O","P","Q","R","S","T","U","V","W","X","Y","Z">>
LowerLetters == <<"a","b","c","d","e","f","g","h","i","j","k","l","m",
                  "n","o","p","q","r","s","t","u","v","w","x","y","z">>

\* str.lower() on one character
LowerChar(c) ==
    IF \E i \in DOMAIN UpperLetters : UpperLetters[i] = c
    THEN LowerLetters[CHOOSE i \in DOMAIN UpperLetters : UpperLetters[i] = c]
    ELSE c

\* str.lower()
Lower(s) == [i \in DOMAIN s |-> LowerChar(s[i])]

\* the Python test `kw in text` on strings: kw is a substring of text
Contains(text, kw) ==
    \E i \in 0..(Len(text) - Len(kw)) :
        \A j \in 1..Len(kw) : text[i + j] = kw[j]

RECURSIVE SumSeq(_)
SumSeq(s) == IF s = <<>> THEN 0 ELSE Head(s) + SumSeq(Tail(s))

----------------------------------------------------------------------------
(* HarmScoreCalculator *)

SEVERITY_POINTS_high_above_severe ==
    [low |-> 8, moderate |-> 18, high |-> 53, severe |-> 50]

\* SEVERITY_POINTS: base points per concern
SEVERITY_POINTS ==
    [low |-> 8, moderate |-> 18, high |-> 35, severe |-> 50]

\* SEVERITY_POINTS.get(severity, 8)
SeverityPoints(severity) == Get(SEVERITY_POINTS, severity, 8)

kw_pesticide == <<"p","e","s","t","i","c","i","d","e">>
kw_insecticide == <<"i","n","s","e","c","t","i","c","i","d","e">>
kw_herbicide == <<"h","e","r","b","i","c","i","d","e">>
kw_household_cleaner ==
    <<"h","o","u","s","e","h","o","l","d","_","c","l","e","a","n","e","r">>
kw_disinfectant == <<"d","i","s","i","n","f","e","c","t","a","n","t">>
kw_chemical_product ==
    <<"c","h","e","m","i","c","a","l","_","p","r","o","d","u","c","t">>

\* CATEGORY_MULTIPLIERS, in the insertion order the dict iterates in;
\* multipliers in hundredths
CATEGORY_MULTIPLIERS ==
    << [keyword |-> kw_pesticide,         multiplier |-> 140],
       [keyword |-> kw_insecticide,       multiplier |-> 140],
       [keyword |-> kw_herbicide,         multiplier |-> 140],
       [keyword |-> kw_household_cleaner, multiplier |-> 120],
       [keyword |-> kw_disinfectant,      multiplier |-> 120],
       [keyword |-> kw_chemical_product,  multiplier |-> 115] >>

high_risk_keywords ==
    << <<"k","i","l","l","e","r">>,
       <<"s","p","r","a","y">>,
       <<"p","o","i","s","o","n">>,
       <<"t","o","x","i","c">>,
       <<"b","l","e","a","c","h">>,
       <<"a","c","i","d">>,
       <<"l","y","e">>,
       <<"c","a","u","s","t","i","c">>,
       <<"c","o","r","r","o","s","i","v","e">> >>

\* the largest multiplier among all the keywords found, instead of the first
CategoryMultiplierScanLargest(product_name, category) ==
    LET product_lower == Lower(product_name)
        category_lower == Lower(category)
        hits == {i \in DOMAIN CATEGORY_MULTIPLIERS :
                    \/ Contains(product_lower, CATEGORY_MULTIPLIERS[i].keyword)
                    \/ Contains(category_lower, CATEGORY_MULTIPLIERS[i].keyword)}
        found == {CATEGORY_MULTIPLIERS[i].multiplier : i \in hits}
                    \cup (IF \E i \in DOMAIN high_risk_keywords :
                                Contains(product_lower, high_risk_keywords[i])
                          THEN {130} ELSE {})
                    \cup {100}
    IN  CHOOSE m \in found : \A n \in found : n <= m

\* the two scans of HarmScoreCalculator._get_category_multiplier, result in
\* hundredths: the first table keyword found in the name or the category,
\* else any high-risk keyword found in the name, else 1.0
CategoryMultiplierScan(product_name, category) ==
    LET product_lower == Lower(product_name)
        category_lower == Lower(category)
        hits == {i \in DOMAIN CATEGORY_MULTIPLIERS :
                    \/ Contains(product_lower, CATEGORY_MULTIPLIERS[i].keyword)
                    \/ Contains(category_lower, CATEGORY_MULTIPLIERS[i].keyword)}
    IN  IF hits # {}
        THEN CATEGORY_MULTIPLIERS[CHOOSE i \in hits : \A j \in hits : i <= j].multiplier
        ELSE IF \E i \in DOMAIN high_risk_keywords :
                    Contains(product_lower, high_risk_keywords[i])
             THEN 130
             ELSE 100

txt_Soap == <<"S","o","a","p">>
txt_Pesticide == <<"P","e","s","t","i","c","i","d","e">>
txt_DisinfectantBleach ==
    <<"D","i","s","i","n","f","e","c","t","a","n","t"," ","B","l","e","a","c","h">>
txt_Bleach == <<"B","L","E","A","C","H">>
txt_bleach == <<"b","l","e","a","c","h">>
txt_Unknown == <<"U","n","k","n","o","w","n">>

\* the product names and the categories the model's inputs carry
ProductNames ==
    {<<>>, txt_Soap, txt_Pesticide, txt_DisinfectantBleach, txt_Bleach, txt_Unknown}
Categories == {<<>>, txt_bleach, kw_chemical_product}

\* the scan's results for the model's names and categories, evaluated once
CategoryMultiplierOf ==
    {<<l, CategoryMultiplierScan(l[1], l[2])>> : l \in ProductNames \X Categories}

\* HarmScoreCalculator._get_category_multiplier, result in hundredths
GetCategoryMultiplier(product_name, category) ==
    IF \E p \in CategoryMultiplierOf : p[1] = <<product_name, category>>
    THEN (CHOOSE p \in CategoryMultiplierOf : p[1] = <<product_name, category>>)[2]
    ELSE CategoryMultiplierScan(product_name, category)

\* the confidences, in hundredths, for which the double (0.7 - confidence) * 20
\* lies just below a whole number
BonusBelowWhole == {5, 15, 20, 30, 40, 45, 50, 55, 60, 65}

\* caution_bonus as it adds to base_score, in 1/10000 point: the shortfall of
\* the double survives the addition only when base_score is 0.0
CautionBonus(base_score, confidence) ==
    (70 - confidence) * 20 * 100
        - (IF base_score = 0 /\ confidence \in BonusBelowWhole THEN 1 ELSE 0)

\* points * confidence of the allergens / other concerns, in 1/100 point
SeverityWeighted(dets) ==
    SumSeq([i \in DOMAIN dets |->
              SeverityPoints(Get(dets[i], "severity", "low"))
                * Get(dets[i], "confidence", 100)])

\* the PFAS compounds weighted as allergens of severity high are
PfasWeightedAsHigh(dets) ==
    SumSeq([i \in DOMAIN dets |-> 30 * Get(dets[i], "confidence", 100)])

\* 40 * confidence of the PFAS compounds, in 1/100 point
PfasWeighted(dets) ==
    SumSeq([i \in DOMAIN dets |-> 40 * Get(dets[i], "confidence", 100)])

\* HarmScoreCalculator.get_risk_level
GetRiskLevel(score) ==
    IF score <= 30 THEN "Safe"
    ELSE IF score <= 60 THEN "Moderate Risk"
    ELSE IF score <= 80 THEN "High Risk"
    ELSE "Dangerous"

\* the historical normalised (averaged) formula instead of the additive one
CalculateAveraged(data) ==
    LET allergens == Get(data, "allergens_detected", <<>>)
        pfas_compounds == Get(data, "pfas_detected", <<>>)
        toxins == Get(data, "other_concerns", <<>>)
        n == Len(allergens) + Len(pfas_compounds) + Len(toxins)
        points == SeverityWeighted(allergens) + PfasWeighted(pfas_compounds)
                    + SeverityWeighted(toxins)
        base == IF n = 0 THEN 0 ELSE (points * 100) \div n
    IN  Min(100, Trunc(base, 10000))

\* calculate without the upper cap
CalculateNoCap(data) ==
    LET allergens == Get(data, "allergens_detected", <<>>)
        pfas_compounds == Get(data, "pfas_detected", <<>>)
        toxins == Get(data, "other_concerns", <<>>)
        points == SeverityWeighted(allergens) + PfasWeighted(pfas_compounds)
                    + SeverityWeighted(toxins)
        multiplied == points * GetCategoryMultiplier(Get(data, "product_name", <<>>),
                                                     Get(data, "category", <<>>))
        confidence == Get(data, "confidence", 100)
        adjusted == IF confidence < 70
                    THEN multiplied + CautionBonus(multiplied, confidence)
                    ELSE multiplied
        floored == IF (allergens # <<>> \/ pfas_compounds # <<>> \/ toxins # <<>>)
                        /\ adjusted < 250000
                   THEN 250000 ELSE adjusted
    IN  Trunc(floored, 10000)

\* calculate without the minimum score for detected concerns
CalculateNoFloor(data) ==
    LET allergens == Get(data, "allergens_detected", <<>>)
        pfas_compounds == Get(data, "pfas_detected", <<>>)
        toxins == Get(data, "other_concerns", <<>>)
        points == SeverityWeighted(allergens) + PfasWeighted(pfas_compounds)
                    + SeverityWeighted(toxins)
        multiplied == points * GetCategoryMultiplier(Get(data, "product_name", <<>>),
                                                     Get(data, "category", <<>>))
        confidence == Get(data, "confidence", 100)
        adjusted == IF confidence < 70
                    THEN multiplied + CautionBonus(multiplied, confidence)
                    ELSE multiplied
    IN  Min(100, Trunc(adjusted, 10000))

\* calculate with the caution bonus added before the category multiplier
CalculateBonusMultiplied(data) ==
    LET allergens == Get(data, "allergens_detected", <<>>)
        pfas_compounds == Get(data, "pfas_detected", <<>>)
        toxins == Get(data, "other_concerns", <<>>)
        points == SeverityWeighted(allergens) + PfasWeighted(pfas_compounds)
                    + SeverityWeighted(toxins)
        confidence == Get(data, "confidence", 100)
        adjusted == IF confidence < 70
                    THEN points + (70 - confidence) * 20 ELSE points
        multiplied == adjusted * GetCategoryMultiplier(Get(data, "product_name", <<>>),
                                                       Get(data, "category", <<>>))
        floored == IF (allergens # <<>> \/ pfas_compounds # <<>> \/ toxins # <<>>)
                        /\ multiplied < 250000
                   THEN 250000 ELSE multiplied
    IN  Min(100, Trunc(floored, 10000))

\* HarmScoreCalculator.calculate
Calculate(data) ==
    LET allergens == Get(data, "allergens_detected", <<>>)
        pfas_compounds == Get(data, "pfas_detected", <<>>)
        toxins == Get(data, "other_concerns", <<>>)
        \* base_score after the three loops, in 1/100 point
        points == SeverityWeighted(allergens) + PfasWeighted(pfas_compounds)
                    + SeverityWeighted(toxins)
        \* base_score *= category_multiplier, in 1/10000 point
        multiplied == points * GetCategoryMultiplier(Get(data, "product_name", <<>>),
                                                     Get(data, "category", <<>>))
        confidence == Get(data, "confidence", 100)
        \* caution_bonus = (0.7 - confidence) * 20
        adjusted == IF confidence < 70
                    THEN multiplied + CautionBonus(multiplied, confidence)
                    ELSE multiplied
        floored == IF (allergens # <<>> \/ pfas_compounds # <<>> \/ toxins # <<>>)
                        /\ adjusted < 250000
                   THEN 250000 ELSE adjusted
    IN  Min(100, Trunc(floored, 10000))

----------------------------------------------------------------------------
(* Texts and collaborators' data of the pipeline model *)

txt_Soy == <<"S","o","y">>
txt_soy == <<"s","o","y">>
txt_soja == <<"s","o","j","a">>
txt_PTFE == <<"P","T","F","E">>
txt_Lead == <<"L","e","a","d">>
txt_water == <<"w","a","t","e","r">>
txt_Soja_oil == <<"S","o","j","a"," ","o","i","l">>
txt_ptfe_coat == <<"p","t","f","e"," ","c","o","a","t">>

url_amazon == <<"a","m","a","z","o","n",".","c","a","/","p">>
url_other == <<"s","h","o","p",".","i","o","/","p">>

\* the product URLs requests carry
Urls == {url_amazon, url_other}

\* the requests in flight at most
Reqs == {"r1", "r2"}

\* the allergens table of the knowledge base
AllergenTable ==
    << [name |-> txt_Soy, synonyms |-> <<txt_soja>>, severity |-> "high"] >>

\* the pfas_compounds table of the knowledge base
PfasTable ==
    << [name |-> txt_PTFE, cas_number |-> "9002-84-0",
        body_effects |-> "immune"] >>

\* what the extraction model may answer: JSON objects, or text without JSON
ExtractorResponses ==
    { [kind |-> "bad_json"],
      [kind |-> "json",
       json |-> [product_name |-> txt_Soap, brand |-> "Acme",
                 ingredients |-> <<txt_water, txt_Soja_oil>>,
                 materials |-> <<txt_ptfe_coat>>, confidence |-> 90]],
      [kind |-> "json",
       json |-> [product_name |-> txt_Soap, brand |-> "Acme",
                 ingredients |-> <<txt_water>>,
                 materials |-> <<>>, confidence |-> 30]],
      [kind |-> "json",
       json |-> [product_name |-> txt_Soap, brand |-> "Acme"]] }

\* what the analysis model may answer: no text block, text without JSON, or
\* a JSON object
AgentResponses ==
    { [kind |-> "no_text"],
      [kind |-> "bad_json"],
      [kind |-> "json",
       json |-> [product_name |-> txt_Soap, brand |-> "Acme",
                 retailer |-> "Amazon.ca", ingredients |-> <<txt_water>>,
                 allergens_detected |->
                    << [name |-> txt_soy, severity |-> "moderate",
                        source |-> "label", confidence |-> 40] >>,
                 pfas_detected |->
                    << [name |-> txt_PTFE, cas_number |-> "9002-84-0",
                        body_effects |-> "immune", source |-> "coating",
                        confidence |-> 100] >>,
                 other_concerns |->
                    << [name |-> txt_Lead, category |-> "heavy metal",
                        severity |-> "high", description |-> "lead",
                        confidence |-> 40] >>,
                 confidence |-> 80]],
      [kind |-> "json",
       json |-> [product_name |-> txt_Soap, brand |-> "Acme",
                 retailer |-> "Amazon.ca"]],
      [kind |-> "json",
       json |-> [product_name |-> txt_Soap, brand |-> "Acme",
                 retailer |-> "Amazon.ca", confidence |-> 150]] }

\* the errors the Anthropic client raises
RateLimitError == [type |-> "RateLimitError", message |-> "rate limit"]
APIError == [type |-> "APIError", message |-> "api error"]

\* fastapi.HTTPException
HTTPException(status_code, detail, headers) ==
    [type |-> "HTTPException", status_code |-> status_code,
     detail |-> detail, headers |-> headers]

----------------------------------------------------------------------------
(* DatabaseService *)

\* DatabaseService.generate_url_hash: SHA-256, taken to be injective
GenerateUrlHash(url) == <<"sha256", url>>

UrlHashes == {GenerateUrlHash(u) : u \in Urls}

\* the row DatabaseService.store_analysis upserts at time t
DbData(url_hash, product_url, analysis_response, t) ==
    LET a == Get(analysis_response, "analysis", <<>>)
    IN  [product_url_hash |-> url_hash,
         product_url |-> product_url,
         product_name |-> Get(a, "product_name", <<>>),
         brand |-> Get(a, "brand", ""),
         category |-> Get(a, "category", ""),
         harm_score |-> 100 - Get(a, "overall_score", 0),
         overall_safety_summary |-> Get(a, "summary", ""),
         allergens |-> Get(a, "allergens", <<>>),
         pfas_compounds |-> Get(a, "pfas_compounds", <<>>),
         other_concerns |-> Get(a, "other_concerns", <<>>),
         alternatives_summary |-> Get(a, "safer_alternatives", ""),
         raw_analysis |-> analysis_response,
         analyzed_at |-> t]

----------------------------------------------------------------------------
(* Scrapers *)

AmazonDomains ==
    { <<"a","m","a","z","o","n",".","c","o","m">>,
      <<"a","m","a","z","o","n",".","c","a">>,
      <<"a","m","a","z","o","n",".","c","o",".","u","k">>,
      <<"a","m","a","z","o","n",".","d","e">>,
      <<"a","m","a","z","o","n",".","f","r">>,
      <<"a","m","a","z","o","n",".","i","t">>,
      <<"a","m","a","z","o","n",".","e","s">>,
      <<"a","m","a","z","o","n",".","c","o","m",".","a","u">>,
      <<"a","m","a","z","o","n",".","c","o",".","j","p">> }

\* AmazonScraper.can_scrape
CanScrape(url) == \E d \in AmazonDomains : Contains(Lower(url), d)

\* the substrings _extract_retailer looks for, in the order of its tests
RetailerDomains ==
    << <<"a","m","a","z","o","n",".","c","a">>,
       <<"a","m","a","z","o","n",".","c","o","m">>,
       <<"a","m","a","z","o","n",".","c","o",".","u","k">>,
       <<"a","m","a","z","o","n",".","d","e">>,
       <<"a","m","a","z","o","n",".","f","r">>,
       <<"a","m","a","z","o","n",".","i","t">>,
       <<"a","m","a","z","o","n",".","e","s">>,
       <<"a","m","a","z","o","n",".","c","o","m",".","a","u">>,
       <<"a","m","a","z","o","n",".","c","o",".","j","p">> >>

RetailerNames ==
    << "Amazon.ca", "Amazon.com", "Amazon.co.uk", "Amazon.de", "Amazon.fr",
       "Amazon.it", "Amazon.es", "Amazon.com.au", "Amazon.co.jp" >>

\* AmazonScraper._extract_retailer
ExtractRetailer(url) ==
    LET hits == {i \in DOMAIN RetailerDomains : Contains(url, RetailerDomains[i])}
    IN  IF hits = {} THEN "Amazon"
        ELSE RetailerNames[CHOOSE i \in hits : \A j \in hits : i <= j]

\* AmazonScraper._calculate_confidence; the size in tenths of a KB
CalculateConfidence(product_size_kb) ==
    IF product_size_kb > 20 THEN 90
    ELSE IF product_size_kb > 10 THEN 70
    ELSE IF product_size_kb > 5 THEN 50
    ELSE 20

\* sizes of the extracted product text, in tenths of a KB
ProductSizes == {3, 8}

\* AmazonScraper.scrape when the page was fetched
AmazonScraped(url, product_size_kb) ==
    [url |-> url, retailer |-> ExtractRetailer(url),
     confidence |-> CalculateConfidence(product_size_kb),
     scrape_method |-> "amazon_raw_html", has_reviews |-> FALSE]

\* the messages of the three except clauses of AmazonScraper.scrape: a
\* timeout, an HTTP error status, any other (network) error
FetchFailures == {"Request timeout", "HTTP 503", "Connection refused"}

\* an error result that keeps the confidence of a fetched page
CreateErrorResultConfident(url, error_message) ==
    [url |-> url, retailer |-> ExtractRetailer(url), confidence |-> 50,
     scrape_method |-> "failed", has_reviews |-> FALSE,
     error_message |-> error_message]

\* AmazonScraper._create_error_result
CreateErrorResult(url, error_message) ==
    [url |-> url, retailer |-> ExtractRetailer(url), confidence |-> 0,
     scrape_method |-> "failed", has_reviews |-> FALSE,
     error_message |-> error_message]

\* what a scraper for another retailer may return
OtherScraped(url, confidence) ==
    [url |-> url, retailer |-> "Shop", confidence |-> confidence,
     scrape_method |-> "other", has_reviews |-> FALSE]

\* confidences a scraper for another retailer reports
OtherConfidences == {10, 30}

\* what scraper.scrape may return for url; None stands for no scraper
ScrapeResults(url) ==
    IF CanScrape(url)
    THEN {CreateErrorResult(url, m) : m \in FetchFailures}
            \cup {AmazonScraped(url, k) : k \in ProductSizes}
    ELSE {None} \cup {OtherScraped(url, c) : c \in OtherConfidences}

\* ProductScraperService.try_scrape on the scraper's result
TryScrape(result) ==
    IF IsNone(result) THEN None
    ELSE IF result.confidence < 30 THEN None
    ELSE result

\* any scraper result counts as a success
ScrapeSucceededAnyResult(result) == ~IsNone(result)

\* the branch test of analyze_product on try_scrape's return value
ScrapeSucceeded(result) ==
    LET scraped_html == TryScrape(result)
    IN  ~IsNone(scraped_html) /\ scraped_html.confidence > 30

----------------------------------------------------------------------------
(* ClaudeQueryService *)

\* ClaudeQueryService._parse_json_response
ParseJsonResponse(raw) ==
    IF raw.kind = "json" THEN raw.json
    ELSE [error |-> "Failed to extract JSON", confidence |-> 0]

----------------------------------------------------------------------------
(* ProductSafetyAgent *)

\* dict.setdefault(k, v)
SetDefault(d, k, v) == IF k \in DOMAIN d THEN d ELSE Put(d, k, v)

\* ProductSafetyAgent._parse_response
ParseResponse(raw) ==
    IF raw.kind = "no_text"
    THEN [product_name |-> txt_Unknown, brand |-> "Unknown",
          retailer |-> "Unknown", ingredients |-> <<>>,
          allergens_detected |-> <<>>, pfas_detected |-> <<>>,
          other_concerns |-> <<>>, confidence |-> 0,
          error |-> "No text content in Claude response"]
    ELSE IF raw.kind = "bad_json"
    THEN [product_name |-> txt_Unknown, brand |-> "Unknown",
          retailer |-> "Unknown", ingredients |-> <<>>,
          allergens_detected |-> <<>>, pfas_detected |-> <<>>,
          other_concerns |-> <<>>, confidence |-> 10,
          error |-> "Failed to parse JSON", raw_response_preview |-> "text"]
    ELSE LET listed ==
                SetDefault(SetDefault(SetDefault(SetDefault(raw.json,
                    "allergens_detected", <<>>),
                    "pfas_detected", <<>>),
                    "other_concerns", <<>>),
                    "ingredients", <<>>)
             confidence == Get(listed, "confidence", 80)
         IN  IF confidence < 0 \/ confidence > 100
             THEN Put(listed, "confidence", 50)
             ELSE listed

----------------------------------------------------------------------------
(* IngredientMatcher: domain/ingredient_matcher.py *)

Range(s) == {s[i] : i \in DOMAIN s}

\* a reference entry's canonical name or one of its synonyms occurs in the
\* token, letter case ignored
TokenMatches(token, ref) ==
    \E n \in {ref.name} \cup Range(Get(ref, "synonyms", <<>>)) :
        Contains(Lower(token), Lower(n))

\* the reference entries that some token matches, in table order
Matched(tokens, table) ==
    SelectSeq(table, LAMBDA ref : \E i \in DOMAIN tokens : TokenMatches(tokens[i], ref))

\* match_ingredients_to_databases
MatchIngredientsToDatabases(ingredients, materials, allergen_database, pfas_database) ==
    LET tokens == ingredients \o materials
        hit_allergens == Matched(tokens, allergen_database)
        hit_pfas == Matched(tokens, pfas_database)
    IN  [allergens_detected |->
            [i \in 1..Len(hit_allergens) |->
                [name |-> hit_allergens[i].name,
                 severity |-> Get(hit_allergens[i], "severity", "low"),
                 source |-> "database_match",
                 confidence |-> 100]],
         pfas_detected |->
            [i \in 1..Len(hit_pfas) |->
                [name |-> hit_pfas[i].name,
                 cas_number |-> Get(hit_pfas[i], "cas_number", ""),
                 body_effects |-> Get(hit_pfas[i], "body_effects", ""),
                 source |-> "database_match",
                 confidence |-> 100]]]

----------------------------------------------------------------------------
(* analyze_product: api/routes/analyze.py *)

txt_Unknown_Product ==
    <<"U","n","k","n","o","w","n"," ","P","r","o","d","u","c","t">>

\* str(e) of an exception
Str(e) == IF e.type = "HTTPException" THEN <<e.status_code, e.detail>>
                                      ELSE <<e.message>>

\* the outer except clause: whatever exception the body raised, an
\* HTTPException of the body included, is replaced by a 500
AnalysisFailed(e) == HTTPException(500, <<"Analysis failed">> \o Str(e), <<>>)

\* the HTTPException the body raises on a rate-limited fallback
RateLimitExceeded ==
    HTTPException(429, "Rate limit exceeded. Please try again later.",
                  [h \in {"Retry-After"} |-> "60"])

\* ProductAnalysis built from a cached row
CachedProductAnalysis(cached) ==
    [product_url |-> cached.product_url,
     product_name |-> cached.product_name,
     brand |-> cached.brand,
     retailer |-> Get(cached, "retailer", Get(cached, "category", "Unknown")),
     ingredients |-> Get(cached, "ingredients", <<>>),
     overall_score |-> Get(cached, "overall_score",
                           100 - Get(cached, "harm_score", 0)),
     allergens_detected |-> Get(cached, "allergens_detected", <<>>),
     pfas_detected |-> Get(cached, "pfas_detected", <<>>),
     other_concerns |-> Get(cached, "other_concerns", <<>>),
     confidence |-> Get(cached, "confidence", 80),
     analyzed_at |-> cached.analyzed_at]

\* AnalysisResponse
AnalysisResponse(a, cached, cache_age_seconds, url_hash) ==
    [status_code |-> 200, analysis |-> a, alternatives |-> <<>>,
     cached |-> cached, cache_age_seconds |-> cache_age_seconds,
     url_hash |-> url_hash]

\* every database find, whatever the AI detections are
DbOnlyFindsAll(db_detected, ai_detected) == db_detected

\* the database finds whose name no AI detection carries
DbOnlyFinds(db_detected, ai_detected) ==
    SelectSeq(db_detected,
              LAMBDA d : ~ \E i \in DOMAIN ai_detected : ai_detected[i].name = d.name)

\* the AI payload as it is, without the database matches
MergeAiOnly(basic, ai) == ai

\* the merge of the database matches into the AI payload
Merge(basic, ai) ==
    LET add_allergens == DbOnlyFinds(basic.allergens_detected,
                                     Get(ai, "allergens_detected", <<>>))
        add_pfas == DbOnlyFinds(basic.pfas_detected,
                                Get(ai, "pfas_detected", <<>>))
        with_allergens ==
            IF add_allergens = <<>> THEN ai
            ELSE Put(ai, "allergens_detected",
                     Get(ai, "allergens_detected", <<>>) \o add_allergens)
    IN  IF add_pfas = <<>> THEN with_allergens
        ELSE Put(with_allergens, "pfas_detected",
                 Get(with_allergens, "pfas_detected", <<>>) \o add_pfas)

\* the database-only result of the two except clauses around enrichment
DatabaseOnly(basic, pd, note) ==
    Put(Put(Put(Put(basic,
        "product_name", Get(pd, "product_name", txt_Unknown_Product)),
        "brand", Get(pd, "brand", "Unknown")),
        "ingredients", Get(pd, "ingredients", <<>>)),
        "note", note)

\* the overall score is the harm score itself
BuildProductAnalysisNoInversion(req, data, harm, t) ==
    [product_url |-> req.product_url,
     product_name |-> Get(data, "product_name", None),
     brand |-> Get(data, "brand", NoneStr),
     retailer |-> Get(data, "retailer", NoneStr),
     ingredients |-> Get(data, "ingredients", <<>>),
     overall_score |-> harm,
     allergens_detected |-> Get(data, "allergens_detected", <<>>),
     pfas_detected |-> Get(data, "pfas_detected", <<>>),
     other_concerns |-> Get(data, "other_concerns", <<>>),
     confidence |-> Get(data, "confidence", 80),
     analyzed_at |-> t]

\* ProductAnalysis built from a fresh analysis
BuildProductAnalysis(req, data, harm, t) ==
    [product_url |-> req.product_url,
     product_name |-> Get(data, "product_name", None),
     brand |-> Get(data, "brand", NoneStr),
     retailer |-> Get(data, "retailer", NoneStr),
     ingredients |-> Get(data, "ingredients", <<>>),
     overall_score |-> 100 - harm,
     allergens_detected |-> Get(data, "allergens_detected", <<>>),
     pfas_detected |-> Get(data, "pfas_detected", <<>>),
     other_concerns |-> Get(data, "other_concerns", <<>>),
     confidence |-> Get(data, "confidence", 80),
     analyzed_at |-> t]

\* the analysis_response handed to store_analysis
StoredResponse(a) ==
    [analysis |->
        [product_name |-> a.product_name, brand |-> a.brand,
         category |-> a.retailer, retailer |-> a.retailer,
         overall_score |-> a.overall_score, ingredients |-> a.ingredients,
         allergens |-> a.allergens_detected,
         pfas_compounds |-> a.pfas_detected,
         other_concerns |-> a.other_concerns, confidence |-> a.confidence]]

\* the locals of a request that is not running
Idle ==
    [pc |-> "idle", request |-> None, cached_analysis |-> None,
     scrape_result |-> None, allergen_db |-> <<>>, pfas_db |-> <<>>,
     product_data |-> None, basic_analysis |-> None, ai_payload |-> None,
     analysis_data |-> None, harm_score |-> NoScore, analysis |-> None,
     response |-> None, events |-> <<>>]

RunIdle ==
    /\ pc = [r \in Reqs |-> Idle.pc]
    /\ request = [r \in Reqs |-> Idle.request]
    /\ cached_analysis = [r \in Reqs |-> Idle.cached_analysis]
    /\ scrape_result = [r \in Reqs |-> Idle.scrape_result]
    /\ allergen_db = [r \in Reqs |-> Idle.allergen_db]
    /\ pfas_db = [r \in Reqs |-> Idle.pfas_db]
    /\ product_data = [r \in Reqs |-> Idle.product_data]
    /\ basic_analysis = [r \in Reqs |-> Idle.basic_analysis]
    /\ ai_payload = [r \in Reqs |-> Idle.ai_payload]
    /\ analysis_data = [r \in Reqs |-> Idle.analysis_data]
    /\ harm_score = [r \in Reqs |-> Idle.harm_score]
    /\ analysis = [r \in Reqs |-> Idle.analysis]
    /\ response = [r \in Reqs |-> Idle.response]
    /\ events = [r \in Reqs |-> Idle.events]

\* the store before any request
StoreInit ==
    /\ now = 0
    /\ db_available \in BOOLEAN
    /\ product_analyses = [h \in UrlHashes |-> None]

\* the merge harness at rest
MergeIdle ==
    /\ merge_basic = [allergens_detected |-> <<>>, pfas_detected |-> <<>>]
    /\ merge_ai = [allergens_detected |-> <<>>, pfas_detected |-> <<>>]
    /\ merge_out = [allergens_detected |-> <<>>, pfas_detected |-> <<>>]

\* no reviews request in flight
ReviewIdle ==
    /\ rv_pc = "idle"
    /\ rv_request = None
    /\ rv_product_url = None
    /\ rv_scraped = None
    /\ rv_data = None
    /\ rv_response = None
    /\ rv_events = <<>>
    /\ review_insights = [h \in UrlHashes |-> None]

\* the calculator harness at rest
CalcIdle ==
    /\ calc_data = <<>>
    /\ calc_score = 0
    /\ calc_op = "calculate"

Init == StoreInit /\ RunIdle /\ CalcIdle /\ MergeIdle /\ ReviewIdle

\* cache_age_seconds of a fresh result: Python's None
NoAge == 0 - 1

\* the lookup is made whether or not a refresh is forced
CacheLookupsForcedToo(req) ==
    LET row == product_analyses[GenerateUrlHash(req.product_url)]
    IN  IF ~db_available
        THEN {[cached |-> None, event |-> "cache_skipped"]}
        ELSE IF IsNone(row)
        THEN {[cached |-> None, event |-> "cache_miss"]}
        ELSE {[cached |-> row, event |-> "cache_hit"],
              [cached |-> None, event |-> "cache_failed"]}

\* a lookup that treats a row analysed before the current tick as expired
CacheLookupsExpiring(req) ==
    LET row == product_analyses[GenerateUrlHash(req.product_url)]
    IN  IF req.force_refresh \/ ~db_available
        THEN {[cached |-> None, event |-> "cache_skipped"]}
        ELSE IF IsNone(row) \/ now - row.analyzed_at >= 1
        THEN {[cached |-> None, event |-> "cache_miss"]}
        ELSE {[cached |-> row, event |-> "cache_hit"],
              [cached |-> None, event |-> "cache_failed"]}

\* what the cache lookup of analyze_product yields, with the event it leaves:
\* the stored row, or None when the lookup is skipped, finds nothing or fails
CacheLookups(req) ==
    LET row == product_analyses[GenerateUrlHash(req.product_url)]
    IN  IF req.force_refresh \/ ~db_available
        THEN {[cached |-> None, event |-> "cache_skipped"]}
        ELSE IF IsNone(row)
        THEN {[cached |-> None, event |-> "cache_miss"]}
        ELSE {[cached |-> row, event |-> "cache_hit"],
              [cached |-> None, event |-> "cache_failed"]}

\* the tables are read whether or not the store is available
KnowledgeLoadsUnchecked(table) == {table, <<>>}

\* what get_all_allergens / get_all_pfas may return for a table
KnowledgeLoads(table) == IF db_available THEN {table, <<>>} ELSE {<<>>}

\* what extract_product_data does on a scraped page: return a payload, after
\* a model query or without one, or raise the client's error
ExtractOutcomes(scraped_html) ==
    IF scraped_html.confidence < 30
    THEN {[kind |-> "return", queried |-> FALSE,
           product_data |-> [error |-> "Scraping failed", confidence |-> 0]]}
    ELSE {[kind |-> "raise", queried |-> TRUE, error |-> e] :
                e \in {RateLimitError, APIError}}
         \cup {[kind |-> "return", queried |-> TRUE,
                product_data |-> ParseJsonResponse(raw)] :
                    raw \in ExtractorResponses}

\* what an agent call does: return the parsed payload or raise
AgentOutcomes ==
    {[kind |-> "raise", error |-> e] : e \in {RateLimitError, APIError}}
    \cup {[kind |-> "return", data |-> ParseResponse(raw)] :
                raw \in AgentResponses}

\* an enrichment answer one of whose allergen detections has no name
NamelessResponse ==
    [kind |-> "json",
     json |-> [product_name |-> txt_Soap, brand |-> "Acme",
               retailer |-> "Amazon.ca",
               allergens_detected |->
                    << [severity |-> "low", confidence |-> 100] >>,
               confidence |-> 80]]

\* what the enrichment call does
EnrichOutcomes ==
    AgentOutcomes
        \cup {[kind |-> "return", data |-> ParseResponse(NamelessResponse)]}

\* the set comprehensions over a['name'] and p['name'] of the merge raise
\* KeyError when an AI detection has no name
MergeRaises(ai) ==
    \E key \in {"allergens_detected", "pfas_detected"} :
        \E i \in DOMAIN Get(ai, key, <<>>) :
            "name" \notin DOMAIN Get(ai, key, <<>>)[i]

Log(r, new_events) == events' = [events EXCEPT ![r] = @ \o new_events]

\* a request arrives
Start(r) ==
    /\ pc[r] = "idle"
    /\ now < MaxTime
    /\ now' = now + 1
    /\ \E url \in Urls, force_refresh \in BOOLEAN :
         request' = [request EXCEPT ![r] =
                        [product_url |-> url, force_refresh |-> force_refresh]]
    /\ pc' = [pc EXCEPT ![r] = "CacheCheck"]
    /\ UNCHANGED <<calc_vars, merge_vars, review_vars,
                   db_available, product_analyses, cached_analysis,
                   scrape_result, allergen_db, pfas_db, product_data,
                   basic_analysis, ai_payload, analysis_data, harm_score,
                   analysis, response, events>>

\* steps 1 to 3: the cache lookup, and the cached result on a hit
CacheCheck(r) ==
    /\ pc[r] = "CacheCheck"
    /\ \E look \in CacheLookups(request[r]) :
         /\ cached_analysis' = [cached_analysis EXCEPT ![r] = look.cached]
         /\ Log(r, <<look.event>>)
         /\ IF IsNone(look.cached)
            THEN /\ pc' = [pc EXCEPT ![r] = "Scraping"]
                 /\ UNCHANGED <<analysis, response>>
            ELSE LET a == CachedProductAnalysis(look.cached)
                 IN  /\ analysis' = [analysis EXCEPT ![r] = a]
                     /\ response' = [response EXCEPT ![r] =
                            AnalysisResponse(a, TRUE, now - a.analyzed_at,
                                GenerateUrlHash(request[r].product_url))]
                     /\ pc' = [pc EXCEPT ![r] = "Done"]
    /\ UNCHANGED <<calc_vars, merge_vars, review_vars,
                   store_vars, request, scrape_result, allergen_db,
                   pfas_db, product_data, basic_analysis, ai_payload,
                   analysis_data, harm_score>>

\* steps 4a and 4b and the branch on the scrape
Scrape(r) ==
    /\ pc[r] = "Scraping"
    /\ \E result \in ScrapeResults(request[r].product_url),
          allergens \in KnowledgeLoads(AllergenTable),
          pfas \in KnowledgeLoads(PfasTable) :
         /\ scrape_result' = [scrape_result EXCEPT ![r] = result]
         /\ allergen_db' = [allergen_db EXCEPT ![r] = allergens]
         /\ pfas_db' = [pfas_db EXCEPT ![r] = pfas]
         /\ pc' = [pc EXCEPT ![r] =
                IF ScrapeSucceeded(result) THEN "Extracting" ELSE "Fallback"]
    /\ Log(r, <<"scrape", "load_kb">>)
    /\ UNCHANGED <<calc_vars, merge_vars, review_vars,
                   store_vars, request, cached_analysis,
                   product_data, basic_analysis, ai_payload, analysis_data,
                   harm_score, analysis, response>>

\* the confidence test on the extraction with the test of the scrape branch
ExtractionUsableAboveThreshold(data) == Get(data, "confidence", 0) > 30

\* the confidence test of analyze_product on the extracted product_data
ExtractionUsable(data) == ~(Get(data, "confidence", 0) < 30)

\* the extraction call and the test of its confidence, with the matching
\* left out: enrichment starts from an empty database result
ExtractWithoutMatching(r) ==
    /\ pc[r] = "Extracting"
    /\ \E out \in ExtractOutcomes(scrape_result[r]) :
         LET called == IF out.queried THEN <<"extract", "extract_query">>
                                      ELSE <<"extract">>
         IN  IF out.kind = "raise"
             THEN /\ response' = [response EXCEPT ![r] = AnalysisFailed(out.error)]
                  /\ pc' = [pc EXCEPT ![r] = "Failed"]
                  /\ Log(r, called \o <<"extract_raised">>)
                  /\ UNCHANGED <<product_data, basic_analysis>>
             ELSE /\ product_data' = [product_data EXCEPT ![r] = out.product_data]
                  /\ UNCHANGED response
                  /\ IF ~ExtractionUsable(out.product_data)
                     THEN /\ pc' = [pc EXCEPT ![r] = "Fallback"]
                          /\ Log(r, called)
                          /\ UNCHANGED basic_analysis
                     ELSE /\ basic_analysis' = [basic_analysis EXCEPT ![r] =
                                [allergens_detected |-> <<>>,
                                 pfas_detected |-> <<>>]]
                          /\ pc' = [pc EXCEPT ![r] = "Enriching"]
                          /\ Log(r, called)
    /\ UNCHANGED <<calc_vars, merge_vars, review_vars,
                   store_vars, request, cached_analysis,
                   scrape_result, allergen_db, pfas_db, ai_payload,
                   analysis_data, harm_score, analysis>>

\* the extraction call, the test of its confidence, and the matching
Extract(r) ==
    /\ pc[r] = "Extracting"
    /\ \E out \in ExtractOutcomes(scrape_result[r]) :
         LET called == IF out.queried THEN <<"extract", "extract_query">>
                                      ELSE <<"extract">>
         IN  IF out.kind = "raise"
             THEN /\ response' = [response EXCEPT ![r] = AnalysisFailed(out.error)]
                  /\ pc' = [pc EXCEPT ![r] = "Failed"]
                  /\ Log(r, called \o <<"extract_raised">>)
                  /\ UNCHANGED <<product_data, basic_analysis>>
             ELSE /\ product_data' = [product_data EXCEPT ![r] = out.product_data]
                  /\ UNCHANGED response
                  /\ IF ~ExtractionUsable(out.product_data)
                     THEN /\ pc' = [pc EXCEPT ![r] = "Fallback"]
                          /\ Log(r, called)
                          /\ UNCHANGED basic_analysis
                     ELSE /\ basic_analysis' = [basic_analysis EXCEPT ![r] =
                                MatchIngredientsToDatabases(
                                    Get(out.product_data, "ingredients", <<>>),
                                    Get(out.product_data, "materials", <<>>),
                                    allergen_db[r], pfas_db[r])]
                          /\ pc' = [pc EXCEPT ![r] = "Enriching"]
                          /\ Log(r, called \o <<"match">>)
    /\ UNCHANGED <<calc_vars, merge_vars, review_vars,
                   store_vars, request, cached_analysis,
                   scrape_result, allergen_db, pfas_db, ai_payload,
                   analysis_data, harm_score, analysis>>

\* the enrichment call where only a rate limit degrades and any other
\* failure fails the request
EnrichFatalOnError(r) ==
    /\ pc[r] = "Enriching"
    /\ \E out \in EnrichOutcomes :
         IF out.kind = "return" /\ ~MergeRaises(out.data)
         THEN /\ ai_payload' = [ai_payload EXCEPT ![r] = out.data]
              /\ analysis_data' = [analysis_data EXCEPT ![r] =
                                        Merge(basic_analysis[r], out.data)]
              /\ Log(r, <<"enrich", "merge">>)
              /\ pc' = [pc EXCEPT ![r] = "Scoring"]
              /\ UNCHANGED <<basic_analysis, response>>
         ELSE IF out.kind = "raise" /\ out.error = RateLimitError
         THEN LET degraded ==
                    DatabaseOnly(basic_analysis[r], product_data[r],
                        "Rate limit reached - showing database matches only")
              IN  /\ analysis_data' = [analysis_data EXCEPT ![r] = degraded]
                  /\ basic_analysis' = [basic_analysis EXCEPT ![r] = degraded]
                  /\ Log(r, <<"enrich", "enrich_rate_limited">>)
                  /\ pc' = [pc EXCEPT ![r] = "Scoring"]
                  /\ UNCHANGED <<ai_payload, response>>
         ELSE /\ response' = [response EXCEPT ![r] = AnalysisFailed(APIError)]
              /\ Log(r, <<"enrich",
                          IF out.kind = "raise" THEN "enrich_failed"
                                                ELSE "merge_failed">>)
              /\ pc' = [pc EXCEPT ![r] = "Failed"]
              /\ UNCHANGED <<ai_payload, analysis_data, basic_analysis>>
    /\ UNCHANGED <<calc_vars, merge_vars, review_vars,
                   store_vars, request, cached_analysis,
                   scrape_result, allergen_db, pfas_db, product_data,
                   harm_score, analysis>>

\* the enrichment call, then the merge or one of the two except clauses
Enrich(r) ==
    /\ pc[r] = "Enriching"
    /\ \E out \in EnrichOutcomes :
         IF out.kind = "return" /\ ~MergeRaises(out.data)
         THEN /\ ai_payload' = [ai_payload EXCEPT ![r] = out.data]
              /\ analysis_data' = [analysis_data EXCEPT ![r] =
                                        Merge(basic_analysis[r], out.data)]
              /\ Log(r, <<"enrich", "merge">>)
              /\ UNCHANGED basic_analysis
         ELSE LET rate_limited ==
                    out.kind = "raise" /\ out.error = RateLimitError
                  degraded ==
                    DatabaseOnly(basic_analysis[r], product_data[r],
                        IF rate_limited
                        THEN "Rate limit reached - showing database matches only"
                        ELSE "AI analysis unavailable - showing database matches only")
              IN  /\ analysis_data' = [analysis_data EXCEPT ![r] = degraded]
                  /\ basic_analysis' = [basic_analysis EXCEPT ![r] = degraded]
                  /\ Log(r, <<"enrich",
                              IF rate_limited THEN "enrich_rate_limited"
                              ELSE IF out.kind = "raise" THEN "enrich_failed"
                              ELSE "merge_failed">>)
                  /\ ai_payload' = [ai_payload EXCEPT ![r] =
                        IF out.kind = "return" THEN out.data ELSE @]
    /\ pc' = [pc EXCEPT ![r] = "Scoring"]
    /\ UNCHANGED <<calc_vars, merge_vars, review_vars,
                   store_vars, request, cached_analysis,
                   scrape_result, allergen_db, pfas_db, product_data,
                   harm_score, analysis, response>>

\* the fallback call whose payload goes to step 5 without being scored
FallbackUnscored(r) ==
    /\ pc[r] = "Fallback"
    /\ \E out \in AgentOutcomes :
         IF out.kind = "return"
         THEN /\ analysis_data' = [analysis_data EXCEPT ![r] = out.data]
              /\ pc' = [pc EXCEPT ![r] = "Persisting"]
              /\ Log(r, <<"fallback">>)
              /\ UNCHANGED response
         ELSE /\ response' = [response EXCEPT ![r] =
                    AnalysisFailed(IF out.error = RateLimitError
                                   THEN RateLimitExceeded ELSE out.error)]
              /\ pc' = [pc EXCEPT ![r] = "Failed"]
              /\ Log(r, <<"fallback",
                          IF out.error = RateLimitError
                          THEN "fallback_rate_limited" ELSE "fallback_failed">>)
              /\ UNCHANGED analysis_data
    /\ UNCHANGED <<calc_vars, merge_vars, review_vars,
                   store_vars, request, cached_analysis,
                   scrape_result, allergen_db, pfas_db, product_data,
                   basic_analysis, ai_payload, harm_score, analysis>>

\* the combined fetch-and-analyse call of the fallback path
Fallback(r) ==
    /\ pc[r] = "Fallback"
    /\ \E out \in AgentOutcomes :
         IF out.kind = "return"
         THEN /\ analysis_data' = [analysis_data EXCEPT ![r] = out.data]
              /\ pc' = [pc EXCEPT ![r] = "Scoring"]
              /\ Log(r, <<"fallback">>)
              /\ UNCHANGED response
         ELSE /\ response' = [response EXCEPT ![r] =
                    AnalysisFailed(IF out.error = RateLimitError
                                   THEN RateLimitExceeded ELSE out.error)]
              /\ pc' = [pc EXCEPT ![r] = "Failed"]
              /\ Log(r, <<"fallback",
                          IF out.error = RateLimitError
                          THEN "fallback_rate_limited" ELSE "fallback_failed">>)
              /\ UNCHANGED analysis_data
    /\ UNCHANGED <<calc_vars, merge_vars, review_vars,
                   store_vars, request, cached_analysis,
                   scrape_result, allergen_db, pfas_db, product_data,
                   basic_analysis, ai_payload, harm_score, analysis>>

\* the harm score and the ProductAnalysis
Score(r) ==
    /\ pc[r] = "Scoring"
    /\ harm_score' = [harm_score EXCEPT ![r] = Calculate(analysis_data[r])]
    /\ analysis' = [analysis EXCEPT ![r] =
            BuildProductAnalysis(request[r], analysis_data[r],
                                 harm_score'[r], now)]
    /\ pc' = [pc EXCEPT ![r] = "Persisting"]
    /\ Log(r, <<"score">>)
    /\ UNCHANGED <<calc_vars, merge_vars, review_vars,
                   store_vars, request, cached_analysis,
                   scrape_result, allergen_db, pfas_db, product_data,
                   basic_analysis, ai_payload, analysis_data, response>>

\* step 5 with a failing upsert that fails the request
PersistFatal(r) ==
    /\ pc[r] = "Persisting"
    /\ LET url_hash == GenerateUrlHash(request[r].product_url)
       IN  \/ /\ db_available
              /\ product_analyses' = [product_analyses EXCEPT ![url_hash] =
                     DbData(url_hash, request[r].product_url,
                            StoredResponse(analysis[r]), now)]
              /\ Log(r, <<"store_ok">>)
              /\ response' = [response EXCEPT ![r] =
                     AnalysisResponse(analysis[r], FALSE, NoAge, url_hash)]
              /\ pc' = [pc EXCEPT ![r] = "Done"]
           \/ /\ db_available
              /\ Log(r, <<"store_failed">>)
              /\ response' = [response EXCEPT ![r] = AnalysisFailed(APIError)]
              /\ pc' = [pc EXCEPT ![r] = "Failed"]
              /\ UNCHANGED product_analyses
           \/ /\ ~db_available
              /\ Log(r, <<"store_skipped">>)
              /\ response' = [response EXCEPT ![r] =
                     AnalysisResponse(analysis[r], FALSE, NoAge, url_hash)]
              /\ pc' = [pc EXCEPT ![r] = "Done"]
              /\ UNCHANGED product_analyses
    /\ UNCHANGED <<calc_vars, merge_vars, review_vars,
                   now, db_available, request, cached_analysis,
                   scrape_result, allergen_db, pfas_db, product_data,
                   basic_analysis, ai_payload, analysis_data, harm_score,
                   analysis>>

\* step 5 with an insert that leaves an existing row as it is
PersistKeepsFirst(r) ==
    /\ pc[r] = "Persisting"
    /\ LET url_hash == GenerateUrlHash(request[r].product_url)
       IN  /\ \/ /\ db_available
                 /\ product_analyses' = [product_analyses EXCEPT ![url_hash] =
                        IF IsNone(@)
                        THEN DbData(url_hash, request[r].product_url,
                                    StoredResponse(analysis[r]), now)
                        ELSE @]
                 /\ Log(r, <<"store_ok">>)
              \/ /\ db_available
                 /\ Log(r, <<"store_failed">>)
                 /\ UNCHANGED product_analyses
              \/ /\ ~db_available
                 /\ Log(r, <<"store_skipped">>)
                 /\ UNCHANGED product_analyses
           /\ response' = [response EXCEPT ![r] =
                    AnalysisResponse(analysis[r], FALSE, NoAge, url_hash)]
    /\ pc' = [pc EXCEPT ![r] = "Done"]
    /\ UNCHANGED <<calc_vars, merge_vars, review_vars,
                   now, db_available, request, cached_analysis,
                   scrape_result, allergen_db, pfas_db, product_data,
                   basic_analysis, ai_payload, analysis_data, harm_score,
                   analysis>>

\* step 5 with a store write only for results of confidence 0.3 or more
PersistConfidentOnly(r) ==
    /\ pc[r] = "Persisting"
    /\ LET url_hash == GenerateUrlHash(request[r].product_url)
       IN  /\ \/ /\ db_available /\ analysis[r].confidence >= 30
                 /\ product_analyses' = [product_analyses EXCEPT ![url_hash] =
                        DbData(url_hash, request[r].product_url,
                               StoredResponse(analysis[r]), now)]
                 /\ Log(r, <<"store_ok">>)
              \/ /\ db_available /\ analysis[r].confidence >= 30
                 /\ Log(r, <<"store_failed">>)
                 /\ UNCHANGED product_analyses
              \/ /\ ~db_available \/ analysis[r].confidence < 30
                 /\ Log(r, <<"store_skipped">>)
                 /\ UNCHANGED product_analyses
           /\ response' = [response EXCEPT ![r] =
                    AnalysisResponse(analysis[r], FALSE, NoAge, url_hash)]
    /\ pc' = [pc EXCEPT ![r] = "Done"]
    /\ UNCHANGED <<calc_vars, merge_vars, review_vars,
                   now, db_available, request, cached_analysis,
                   scrape_result, allergen_db, pfas_db, product_data,
                   basic_analysis, ai_payload, analysis_data, harm_score,
                   analysis>>

\* step 5 and the response: the upsert, which may fail, is not fatal
Persist(r) ==
    /\ pc[r] = "Persisting"
    /\ LET url_hash == GenerateUrlHash(request[r].product_url)
       IN  /\ \/ /\ db_available
                 /\ product_analyses' = [product_analyses EXCEPT ![url_hash] =
                        DbData(url_hash, request[r].product_url,
                               StoredResponse(analysis[r]), now)]
                 /\ Log(r, <<"store_ok">>)
              \/ /\ db_available
                 /\ Log(r, <<"store_failed">>)
                 /\ UNCHANGED product_analyses
              \/ /\ ~db_available
                 /\ Log(r, <<"store_skipped">>)
                 /\ UNCHANGED product_analyses
           /\ response' = [response EXCEPT ![r] =
                    AnalysisResponse(analysis[r], FALSE, NoAge, url_hash)]
    /\ pc' = [pc EXCEPT ![r] = "Done"]
    /\ UNCHANGED <<calc_vars, merge_vars, review_vars,
                   now, db_available, request, cached_analysis,
                   scrape_result, allergen_db, pfas_db, product_data,
                   basic_analysis, ai_payload, analysis_data, harm_score,
                   analysis>>

\* the response has gone out; the locals of the run are dropped
Return(r) ==
    /\ pc[r] \in {"Done", "Failed"}
    /\ pc' = [pc EXCEPT ![r] = Idle.pc]
    /\ request' = [request EXCEPT ![r] = Idle.request]
    /\ cached_analysis' = [cached_analysis EXCEPT ![r] = Idle.cached_analysis]
    /\ scrape_result' = [scrape_result EXCEPT ![r] = Idle.scrape_result]
    /\ allergen_db' = [allergen_db EXCEPT ![r] = Idle.allergen_db]
    /\ pfas_db' = [pfas_db EXCEPT ![r] = Idle.pfas_db]
    /\ product_data' = [product_data EXCEPT ![r] = Idle.product_data]
    /\ basic_analysis' = [basic_analysis EXCEPT ![r] = Idle.basic_analysis]
    /\ ai_payload' = [ai_payload EXCEPT ![r] = Idle.ai_payload]
    /\ analysis_data' = [analysis_data EXCEPT ![r] = Idle.analysis_data]
    /\ harm_score' = [harm_score EXCEPT ![r] = Idle.harm_score]
    /\ analysis' = [analysis EXCEPT ![r] = Idle.analysis]
    /\ response' = [response EXCEPT ![r] = Idle.response]
    /\ events' = [events EXCEPT ![r] = Idle.events]
    /\ UNCHANGED <<calc_vars, merge_vars, review_vars,
                   store_vars>>

\* the stage of the run an entry of events belongs to (0: not a stage)
StageOf(event) ==
    CASE event = "scrape" -> 1
      [] event = "extract" -> 2
      [] event = "match" -> 3
      [] event \in {"enrich", "fallback"} -> 4
      [] event = "merge" -> 5
      [] event = "score" -> 6
      [] event \in {"store_ok", "store_failed", "store_skipped"} -> 7
      [] OTHER -> 0

\* the request served when requests come one after the other
Caller == "r1"

Next ==
    \/ Start(Caller)
    \/ CacheCheck(Caller)
    \/ Scrape(Caller)
    \/ Extract(Caller)
    \/ Enrich(Caller)
    \/ Fallback(Caller)
    \/ Score(Caller)
    \/ Persist(Caller)
    \/ Return(Caller)

Spec == Init /\ [][Next]_vars

----------------------------------------------------------------------------
(* Two requests for one URL served concurrently: each await of              *)
(* analyze_product is a point at which the other request may run            *)

\* the store is empty and no request is in flight
ConcInit == Init

\* a request arrives for the URL of the request in flight, if there is one
ConcStart(r) ==
    /\ Start(r)
    /\ \A q \in Reqs \ {r} :
            ~IsNone(request[q])
                => request'[r].product_url = request[q].product_url

\* the scrape of a request served concurrently: the knowledge base loads, and
\* the page is fetched in full or not at all
ConcScrape(r) ==
    /\ Scrape(r)
    /\ allergen_db'[r] = AllergenTable
    /\ pfas_db'[r] = PfasTable
    /\ \/ IsNone(scrape_result'[r])
       \/ scrape_result'[r].confidence = 0
       \/ scrape_result'[r].confidence >= 30

\* the extraction of a request served concurrently: a confident payload
ConcExtract(r) ==
    /\ Extract(r)
    /\ Get(product_data'[r], "confidence", 0) = 90

\* the payloads the analysis model gives to requests served concurrently
ConcAgentData ==
    {ParseResponse(raw) :
        raw \in {x \in AgentResponses :
                    x.kind = "json" /\ Get(x.json, "confidence", 0) < 100}}

\* the enrichment of a request served concurrently: one of ConcAgentData, or
\* an APIError
ConcEnrich(r) ==
    /\ Enrich(r)
    /\ \/ ai_payload'[r] \in ConcAgentData
       \/ events'[r][Len(events'[r])] = "enrich_failed"

\* the fallback call of a request served concurrently: one of ConcAgentData,
\* or an APIError
ConcFallback(r) ==
    /\ Fallback(r)
    /\ \/ analysis_data'[r] \in ConcAgentData
       \/ events'[r][Len(events'[r])] = "fallback_failed"

ConcNext ==
    \E r \in Reqs :
        \/ ConcStart(r)
        \/ CacheCheck(r)
        \/ ConcScrape(r)
        \/ ConcExtract(r)
        \/ ConcEnrich(r)
        \/ ConcFallback(r)
        \/ Score(r)
        \/ Persist(r)

ConcSpec == ConcInit /\ [][ConcNext]_vars

----------------------------------------------------------------------------
(* get_review_insights: api/routes/analyze.py *)

\* lengths of the extracted reviews HTML, in characters
ReviewsLengths == {0, 150}

\* AmazonScraper.scrape with include_reviews when the page was fetched
AmazonScrapedWithReviews(url, product_size_kb, reviews_length) ==
    [url |-> url, retailer |-> ExtractRetailer(url),
     confidence |-> CalculateConfidence(product_size_kb),
     scrape_method |-> "amazon_raw_html",
     reviews_length |-> reviews_length,
     has_reviews |-> reviews_length > 100]

\* what scraper.scrape(url, include_reviews=True) may return; None stands
\* for no scraper
ReviewScrapeResults(url) ==
    IF CanScrape(url)
    THEN {CreateErrorResult(url, "Request timeout")}
            \cup {AmazonScrapedWithReviews(url, k, n) :
                        k \in ProductSizes, n \in ReviewsLengths}
    ELSE {None} \cup {OtherScraped(url, c) : c \in OtherConfidences}

\* what the review extraction model may answer
ReviewResponses ==
    { [kind |-> "bad_json"],
      [kind |-> "json",
       json |-> [overall_sentiment |-> "negative",
                 total_reviews_analyzed |-> 12,
                 health_concerns |-> <<"rash">>, confidence |-> 90]],
      [kind |-> "json",
       json |-> [overall_sentiment |-> "mixed", confidence |-> 30]],
      [kind |-> "json",
       json |-> [overall_sentiment |-> "mixed", confidence |-> 20]],
      [kind |-> "json",
       json |-> [overall_sentiment |-> "positive"]] }

\* what extract_review_insights does on a scraped page
ReviewExtractOutcomes(scraped_html) ==
    IF ~scraped_html.has_reviews
            \/ Get(scraped_html, "reviews_length", 0) < 100
    THEN {[kind |-> "return", queried |-> FALSE,
           review_data |-> [error |-> "No reviews available", confidence |-> 0]]}
    ELSE {[kind |-> "raise", queried |-> TRUE, error |-> e] :
                e \in {RateLimitError, APIError}}
         \cup {[kind |-> "return", queried |-> TRUE,
                review_data |-> ParseJsonResponse(raw)] :
                    raw \in ReviewResponses}

\* the outer `except Exception` clause of get_review_insights
ReviewFailed(e) == HTTPException(500, <<"Review analysis failed">> \o Str(e), <<>>)

\* the 404 of step 2 caught by an `except Exception` clause
ProductNotFoundSwallowed ==
    HTTPException(500, "Failed to retrieve product info", <<>>)

ProductNotFound ==
    HTTPException(404, "Product not found. Analyze the product first.", <<>>)

DatabaseUnavailable ==
    HTTPException(503,
        "Database unavailable. Cannot fetch reviews without URL.", <<>>)

NoReviewsAvailable ==
    HTTPException(404, "No reviews available for this product", <<>>)

ExtractionFailed ==
    HTTPException(500, "Failed to extract review insights", <<>>)

\* the confidence test of step 4 that reads a missing confidence as 0.8
ReviewConfidentByDefault(review_data) ==
    ~(Get(review_data, "confidence", 80) < 30)

\* the confidence test of step 4
ReviewConfident(review_data) ==
    ~(Get(review_data, "confidence", 0) < 30)

\* the ReviewInsights built in step 5
BuildReviewInsights(url_hash, product_url, review_data, t) ==
    [url_hash |-> url_hash,
     product_url |-> product_url,
     overall_sentiment |-> Get(review_data, "overall_sentiment", "mixed"),
     total_reviews_analyzed |-> Get(review_data, "total_reviews_analyzed", 0),
     rating_distribution |-> Get(review_data, "rating_distribution", <<>>),
     common_complaints |-> Get(review_data, "common_complaints", <<>>),
     health_concerns |-> Get(review_data, "health_concerns", <<>>),
     positive_feedback |-> Get(review_data, "positive_feedback", <<>>),
     questions_concerns |-> Get(review_data, "questions_concerns", <<>>),
     verified_purchase_ratio |-> Get(review_data, "verified_purchase_ratio", 0),
     confidence |-> Get(review_data, "confidence", 80),
     analyzed_at |-> t]

\* what get_cached_analysis returns to get_review_insights: the stored row,
\* or None when there is none or the lookup fails
AnalysisLookups(url_hash) ==
    LET row == product_analyses[url_hash]
    IN  IF IsNone(row) THEN {None} ELSE {row, None}

RvLog(new_events) == rv_events' = rv_events \o new_events

\* the exception Python raises for a method the object does not have
AttributeError(method) ==
    [type |-> "AttributeError",
     message |-> <<"'DatabaseService' object has no attribute", method>>]

\* db.get_cached_reviews(url_hash): DatabaseService defines no such method
GetCachedReviews(url_hash) ==
    [kind |-> "raise", error |-> AttributeError("get_cached_reviews")]

\* db.cache_review_insights(url_hash, data): DatabaseService defines no such
\* method
CacheReviewInsights(url_hash, data) ==
    [kind |-> "raise", error |-> AttributeError("cache_review_insights")]

\* a reviews request arrives
RvStart ==
    /\ rv_pc = "idle"
    /\ now < MaxTime
    /\ now' = now + 1
    /\ \E url_hash \in UrlHashes, force_refresh \in BOOLEAN :
         rv_request' = [url_hash |-> url_hash, force_refresh |-> force_refresh]
    /\ rv_pc' = "Lookup"
    /\ UNCHANGED <<calc_vars, merge_vars, run_vars,
                   db_available, product_analyses, review_insights,
                   rv_product_url, rv_scraped, rv_data, rv_response, rv_events>>

\* steps 1 and 2: the reviews cache lookup, whose exception is logged and
\* passed over; then the product URL is recovered from the cached analysis
RvLookup ==
    /\ rv_pc = "Lookup"
    /\ LET looked == ~rv_request.force_refresh /\ db_available
           cached_reviews == GetCachedReviews(rv_request.url_hash)
           tried == IF ~looked THEN <<>>
                    ELSE IF cached_reviews.kind = "raise"
                         THEN <<"reviews_cache_failed">>
                         ELSE <<"reviews_cache_lookup">>
       IN  IF looked /\ cached_reviews.kind = "return"
                    /\ ~IsNone(cached_reviews.value)
           THEN /\ rv_response' = [status_code |-> 200,
                                   insights |-> cached_reviews.value]
                /\ rv_pc' = "Done"
                /\ RvLog(tried)
                /\ UNCHANGED rv_product_url
           ELSE IF ~db_available
           THEN /\ rv_response' = DatabaseUnavailable
                /\ rv_pc' = "Failed"
                /\ RvLog(tried)
                /\ UNCHANGED rv_product_url
           ELSE \E cached \in AnalysisLookups(rv_request.url_hash) :
                  /\ RvLog(tried \o <<"analysis_lookup">>)
                  /\ IF IsNone(cached)
                     THEN /\ rv_response' = ProductNotFound
                          /\ rv_pc' = "Failed"
                          /\ UNCHANGED rv_product_url
                     ELSE /\ rv_product_url' = cached.product_url
                          /\ rv_pc' = "Scraping"
                          /\ UNCHANGED rv_response
    /\ UNCHANGED <<calc_vars, merge_vars, store_vars, run_vars,
                   rv_request, rv_scraped, rv_data, review_insights>>

\* step 3 without the has_reviews test
RvScrapeAnyContent ==
    /\ rv_pc = "Scraping"
    /\ \E result \in ReviewScrapeResults(rv_product_url) :
         LET scraped_reviews == TryScrape(result)
         IN  /\ rv_scraped' = scraped_reviews
             /\ IF IsNone(scraped_reviews)
                THEN /\ rv_response' = NoReviewsAvailable
                     /\ rv_pc' = "Failed"
                ELSE /\ rv_pc' = "Extracting"
                     /\ UNCHANGED rv_response
    /\ RvLog(<<"scrape">>)
    /\ UNCHANGED <<calc_vars, merge_vars, store_vars, run_vars,
                   rv_request, rv_product_url, rv_data, review_insights>>

\* step 3: the reviews scrape and the test for review content
RvScrape ==
    /\ rv_pc = "Scraping"
    /\ \E result \in ReviewScrapeResults(rv_product_url) :
         LET scraped_reviews == TryScrape(result)
         IN  /\ rv_scraped' = scraped_reviews
             /\ IF IsNone(scraped_reviews) \/ ~scraped_reviews.has_reviews
                THEN /\ rv_response' = NoReviewsAvailable
                     /\ rv_pc' = "Failed"
                ELSE /\ rv_pc' = "Extracting"
                     /\ UNCHANGED rv_response
    /\ RvLog(<<"scrape">>)
    /\ UNCHANGED <<calc_vars, merge_vars, store_vars, run_vars,
                   rv_request, rv_product_url, rv_data, review_insights>>

\* steps 4 to 6: the extraction, the ReviewInsights, and the cache write,
\* whose exception is logged and is not fatal
RvExtract ==
    /\ rv_pc = "Extracting"
    /\ \E out \in ReviewExtractOutcomes(rv_scraped) :
         LET called == IF out.queried THEN <<"extract", "extract_query">>
                                      ELSE <<"extract">>
             insights == BuildReviewInsights(rv_request.url_hash,
                            rv_product_url, out.review_data, now)
             written == CacheReviewInsights(rv_request.url_hash, insights)
         IN  IF out.kind = "raise"
             THEN /\ rv_response' = ReviewFailed(out.error)
                  /\ rv_pc' = "Failed"
                  /\ RvLog(called \o <<"extract_raised">>)
                  /\ UNCHANGED <<rv_data, review_insights>>
             ELSE /\ rv_data' = out.review_data
                  /\ IF ~ReviewConfident(out.review_data)
                     THEN /\ rv_response' = ExtractionFailed
                          /\ rv_pc' = "Failed"
                          /\ RvLog(called)
                          /\ UNCHANGED review_insights
                     ELSE /\ rv_response' = [status_code |-> 200,
                                             insights |-> insights]
                          /\ rv_pc' = "Done"
                          /\ IF ~db_available
                             THEN /\ RvLog(called)
                                  /\ UNCHANGED review_insights
                             ELSE IF written.kind = "raise"
                             THEN /\ RvLog(called \o <<"reviews_store_failed">>)
                                  /\ UNCHANGED review_insights
                             ELSE /\ RvLog(called \o <<"reviews_store_ok">>)
                                  /\ review_insights' =
                                        [review_insights EXCEPT
                                            ![rv_request.url_hash] = insights]
    /\ UNCHANGED <<calc_vars, merge_vars, store_vars, run_vars,
                   rv_request, rv_product_url, rv_scraped>>

\* the response has gone out; the locals of the run are dropped
RvReturn ==
    /\ rv_pc \in {"Done", "Failed"}
    /\ rv_pc' = "idle"
    /\ rv_request' = None
    /\ rv_product_url' = None
    /\ rv_scraped' = None
    /\ rv_data' = None
    /\ rv_response' = None
    /\ rv_events' = <<>>
    /\ UNCHANGED <<calc_vars, merge_vars, store_vars, run_vars,
                   review_insights>>

\* a row that an analysis of url has left in the store
StoredRow(url) ==
    LET data == ParseResponse(CHOOSE raw \in AgentResponses :
                    raw.kind = "json"
                    /\ Get(raw.json, "allergens_detected", <<>>) # <<>>)
        req == [product_url |-> url, force_refresh |-> FALSE]
    IN  DbData(GenerateUrlHash(url), url,
               StoredResponse(BuildProductAnalysis(req, data, Calculate(data), 0)),
               0)

\* the store as earlier analyses may have left it, and no request in flight
ReviewInit ==
    /\ now = 0
    /\ db_available \in BOOLEAN
    /\ product_analyses \in
            [UrlHashes -> {None} \cup {StoredRow(u) : u \in Urls}]
    /\ \A u \in Urls :
            LET row == product_analyses[GenerateUrlHash(u)]
            IN  /\ ~IsNone(row) => row = StoredRow(u)
                /\ ~db_available => IsNone(row)
    /\ RunIdle
    /\ CalcIdle
    /\ MergeIdle
    /\ ReviewIdle

ReviewNext ==
    \/ RvStart
    \/ RvLookup
    \/ RvScrape
    \/ RvExtract
    \/ RvReturn

ReviewSpec == ReviewInit /\ [][ReviewNext]_vars

----------------------------------------------------------------------------
(* The merge on its own: the merge of analyze_product applied to bounded   *)
(* lists of database matches and AI detections                             *)

\* the substance names of the merge harness
MergeNames == {txt_Soy, txt_soy, txt_PTFE}

\* a detection of the merge harness
MergeDetection(name) ==
    [name |-> name, severity |-> "high", source |-> "database_match",
     confidence |-> 100]

MergeInputSize ==
    Len(merge_basic.allergens_detected) + Len(merge_basic.pfas_detected)
        + Len(merge_ai.allergens_detected) + Len(merge_ai.pfas_detected)

MergeInit ==
    /\ MergeIdle
    /\ now = 0
    /\ db_available = TRUE
    /\ product_analyses = [h \in UrlHashes |-> None]
    /\ RunIdle
    /\ CalcIdle
    /\ ReviewIdle

\* one more database match, then the merge again
MergeAddBasic ==
    /\ MergeInputSize < MaxMerge
    /\ \E key \in {"allergens_detected", "pfas_detected"}, name \in MergeNames :
         merge_basic' = Put(merge_basic, key,
                            Append(merge_basic[key], MergeDetection(name)))
    /\ merge_out' = Merge(merge_basic', merge_ai)
    /\ UNCHANGED <<merge_ai, calc_vars, store_vars, run_vars, review_vars>>

\* one more AI detection, then the merge again
MergeAddAi ==
    /\ MergeInputSize < MaxMerge
    /\ \E key \in {"allergens_detected", "pfas_detected"}, name \in MergeNames :
         merge_ai' = Put(merge_ai, key,
                         Append(merge_ai[key], MergeDetection(name)))
    /\ merge_out' = Merge(merge_basic, merge_ai')
    /\ UNCHANGED <<merge_basic, calc_vars, store_vars, run_vars, review_vars>>

MergeNext ==
    \/ MergeAddBasic
    \/ MergeAddAi

MergeSpec == MergeInit /\ [][MergeNext]_vars

----------------------------------------------------------------------------
(* The calculator on its own: calculate applied to bounded inputs *)

\* (product_name, category) pairs of the inputs
CalcLabels ==
    { <<txt_Soap, <<>>>>,
      <<txt_Pesticide, <<>>>>,
      <<txt_DisinfectantBleach, <<>>>>,
      <<txt_Bleach, <<>>>>,
      <<txt_Soap, txt_bleach>>,
      <<txt_Soap, kw_chemical_product>> }

\* overall confidence values of the inputs (hundredths), in and out of [0,1]
CalcConfidences == {0 - 50, 25, 50, 70, 150}

\* a detection's own confidence (hundredths)
DetConfidences == {0, 40, 100}

SeverityOrder == <<"low", "moderate", "high", "severe">>

\* severity labels of the inputs; "critical" is a label outside the table
SeverityLabels == {"low", "moderate", "high", "severe", "critical"}

SeverityRank(sev) == CHOOSE i \in DOMAIN SeverityOrder : SeverityOrder[i] = sev

txt_substance == <<"x">>

CalcAllergens ==
    {[name |-> txt_substance, severity |-> s, confidence |-> c] :
        s \in SeverityLabels, c \in DetConfidences}

CalcPfas ==
    {[name |-> txt_substance, confidence |-> c] : c \in DetConfidences \ {0}}

CalcConcerns ==
    {[name |-> txt_substance, severity |-> s, confidence |-> c] :
        s \in SeverityLabels \ {"critical"}, c \in DetConfidences \ {0}}

NumDetections(data) ==
    Len(Get(data, "allergens_detected", <<>>))
      + Len(Get(data, "pfas_detected", <<>>))
      + Len(Get(data, "other_concerns", <<>>))

CalcInit ==
    /\ \E l \in CalcLabels :
          \/ calc_data = [product_name |-> l[1], category |-> l[2]]
          \/ \E c \in CalcConfidences :
                calc_data = [product_name |-> l[1], category |-> l[2],
                             confidence |-> c]
    /\ calc_score = Calculate(calc_data)
    /\ calc_op = "calculate"
    /\ now = 0
    /\ db_available = TRUE
    /\ product_analyses = [h \in UrlHashes |-> None]
    /\ RunIdle
    /\ MergeIdle
    /\ ReviewIdle

\* one more detection in the list under key, then calculate again
CalcAdd(key, det) ==
    /\ NumDetections(calc_data) < MaxDet
    /\ calc_data' = Put(calc_data, key, Append(Get(calc_data, key, <<>>), det))
    /\ calc_score' = Calculate(calc_data')
    /\ calc_op' = "add"
    /\ UNCHANGED <<store_vars, run_vars, merge_vars, review_vars>>

CalcAddAllergen == \E d \in CalcAllergens : CalcAdd("allergens_detected", d)

CalcAddPfas == \E d \in CalcPfas : CalcAdd("pfas_detected", d)

CalcAddConcern == \E d \in CalcConcerns : CalcAdd("other_concerns", d)

\* one allergen or other concern gets a higher severity, then calculate again
CalcRaiseSeverity ==
    \E key \in {"allergens_detected", "other_concerns"} :
      \E i \in DOMAIN Get(calc_data, key, <<>>) :
        \E sev \in {"moderate", "high", "severe"} :
          LET det == calc_data[key][i]
          IN  /\ det.severity \in {"low", "moderate", "high"}
              /\ SeverityRank(det.severity) < SeverityRank(sev)
              /\ calc_data' = Put(calc_data, key,
                                  [calc_data[key] EXCEPT ![i].severity = sev])
              /\ calc_score' = Calculate(calc_data')
              /\ calc_op' = "raise"
              /\ UNCHANGED <<store_vars, run_vars, merge_vars, review_vars>>

CalcNext ==
    \/ CalcAddAllergen
    \/ CalcAddPfas
    \/ CalcAddConcern
    \/ CalcRaiseSeverity

CalcSpec == CalcInit /\ [][CalcNext]_vars

----------------------------------------------------------------------------
(* Claims about the calculator *)

\* C1: a run that misses the cache, gets a scrape of confidence below 0.3 and
\* whose combined fetch-and-analyse call returns, ends with a non-error
\* result after exactly one combined call, no Extractor call and no matching.
C1_LowConfidenceScrapeFallsBack ==
    \A r \in Reqs :
        ( /\ pc[r] \in {"Done", "Failed"}
          /\ "scrape" \in Range(events[r])
          /\ ~IsNone(scrape_result[r])
          /\ scrape_result[r].confidence < 30
          /\ "fallback_rate_limited" \notin Range(events[r])
          /\ "fallback_failed" \notin Range(events[r]) )
        => ( /\ pc[r] = "Done"
             /\ response[r].status_code = 200
             /\ ~response[r].cached
             /\ Count(events[r], "fallback") = 1
             /\ Count(events[r], "extract") = 0
             /\ Count(events[r], "match") = 0 )

C1_Witness ==
    /\ pc[Caller] = "Done"
    /\ ~IsNone(scrape_result[Caller])
    /\ scrape_result[Caller].confidence = 20
    /\ Count(events[Caller], "fallback") = 1
    /\ response[Caller].status_code = 200

\* C2: when scraping and extraction succeed and the enrichment call is rate
\* limited, the run returns a non-error result whose allergen and PFAS
\* detections are exactly the matching output, with no other concerns, and
\* the returned result carries a note that enrichment was skipped.
C2_RateLimitedEnrichmentCarriesNote ==
    \A r \in Reqs :
        ( /\ pc[r] \in {"Done", "Failed"}
          /\ "enrich_rate_limited" \in Range(events[r]) )
        => LET matched == MatchIngredientsToDatabases(
                              Get(product_data[r], "ingredients", <<>>),
                              Get(product_data[r], "materials", <<>>),
                              allergen_db[r], pfas_db[r])
           IN  /\ pc[r] = "Done"
               /\ response[r].status_code = 200
               /\ response[r].analysis.allergens_detected = matched.allergens_detected
               /\ response[r].analysis.pfas_detected = matched.pfas_detected
               /\ response[r].analysis.other_concerns = <<>>
               /\ \/ "note" \in DOMAIN response[r]
                  \/ "note" \in DOMAIN response[r].analysis

\* C3: when the combined call of the fallback path is rate limited, the
\* request fails, the failure the caller gets is the 429 with Retry-After,
\* and nothing is persisted.
C3_RateLimitedFallbackIs429 ==
    \A r \in Reqs :
        ( /\ pc[r] \in {"Done", "Failed"}
          /\ "fallback_rate_limited" \in Range(events[r]) )
        => ( /\ pc[r] = "Failed"
             /\ response[r].status_code = 429
             /\ "Retry-After" \in DOMAIN response[r].headers
             /\ "store_ok" \notin Range(events[r]) )

\* C4: when the extraction call raises after a successful scrape, the run
\* goes on to the fallback path and the fault does not fail the request.
C4_ExtractorFaultFallsBack ==
    \A r \in Reqs :
        "extract_raised" \in Range(events[r])
        => ( /\ pc[r] # "Failed"
             /\ \/ pc[r] = "Fallback"
                \/ "fallback" \in Range(events[r]) )

\* C9: every returned result has overallScore = 100 - harmScore and an
\* overallScore within 0..100: a fresh one for the harm score the calculator
\* gave, which is also the harm_score persisted for its fingerprint, a cached
\* one for the harm_score persisted for its fingerprint.
C9_OverallScoreInvertsHarmScore ==
    \A r \in Reqs :
        pc[r] = "Done"
        => LET row == product_analyses[GenerateUrlHash(request[r].product_url)]
               overall_score == response[r].analysis.overall_score
           IN  /\ overall_score \in 0..100
               /\ IF response[r].cached
                  THEN /\ cached_analysis[r] = row
                       /\ overall_score = 100 - row.harm_score
                  ELSE /\ harm_score[r] = Calculate(analysis_data[r])
                       /\ overall_score = 100 - harm_score[r]
                       /\ "store_ok" \in Range(events[r])
                            => row.harm_score = harm_score[r]

C9_Witness ==
    /\ pc[Caller] = "Done"
    /\ response[Caller].cached
    /\ response[Caller].analysis.overall_score \in 1..99
    /\ cached_analysis[Caller].harm_score = 100 - response[Caller].analysis.overall_score

\* C10: the merge keeps every AI detection and appends a database match only
\* if no AI detection of the same list has the same name, letter case
\* ignored.
C10_MergeIgnoresCase ==
    \A r \in Reqs :
        "merge" \in Range(events[r])
        => \A key \in {"allergens_detected", "pfas_detected"} :
             LET ai_detected == Get(ai_payload[r], key, <<>>)
                 merged == Get(analysis_data[r], key, <<>>)
             IN  /\ Len(merged) >= Len(ai_detected)
                 /\ SubSeq(merged, 1, Len(ai_detected)) = ai_detected
                 /\ \A i \in (Len(ai_detected) + 1)..Len(merged) :
                      \A j \in 1..Len(ai_detected) :
                         Lower(merged[i].name) # Lower(ai_detected[j].name)

\* C11: merging a detection list with itself (the database matches and the
\* AI detections being the same list) gives that same list: nothing is
\* appended and no name appears more often than in the input.
C11_MergeIdempotent ==
    \A key \in {"allergens_detected", "pfas_detected"} :
        merge_basic[key] = merge_ai[key] => merge_out[key] = merge_ai[key]

C11_Witness ==
    /\ merge_basic.allergens_detected = merge_ai.allergens_detected
    /\ Len(merge_ai.allergens_detected) = 2
    /\ merge_ai.allergens_detected[1].name # merge_ai.allergens_detected[2].name
    /\ merge_out.allergens_detected = merge_ai.allergens_detected

\* C12: in every run in which extraction succeeded, each database match is
\* represented in the returned result: the result's list of the same
\* category has a detection with that name, whether enrichment succeeded,
\* with whatever payload, or degraded.
C12_MatchesNeverDropped ==
    \A r \in Reqs :
        ( /\ pc[r] \in {"Done", "Failed"}
          /\ "match" \in Range(events[r]) )
        => LET matched == MatchIngredientsToDatabases(
                              Get(product_data[r], "ingredients", <<>>),
                              Get(product_data[r], "materials", <<>>),
                              allergen_db[r], pfas_db[r])
           IN  /\ pc[r] = "Done"
               /\ \A key \in {"allergens_detected", "pfas_detected"} :
                    \A i \in DOMAIN matched[key] :
                      \E j \in DOMAIN response[r].analysis[key] :
                        response[r].analysis[key][j].name = matched[key][i].name

C12_Witness ==
    /\ pc[Caller] = "Done"
    /\ "merge" \in Range(events[Caller])
    /\ ai_payload[Caller].allergens_detected = <<>>
    /\ ai_payload[Caller].pfas_detected = <<>>
    /\ Len(response[Caller].analysis.allergens_detected) = 1
    /\ response[Caller].analysis.allergens_detected[1].name = txt_Soy
    /\ Len(response[Caller].analysis.pfas_detected) = 1

C14_CachedEqualsFirstResult ==
    \A r \in Reqs :
        ( pc[r] = "Done" /\ response[r].cached )
        => LET first == cached_analysis[r].raw_analysis.analysis
               again == response[r].analysis
           IN  /\ again.overall_score = first.overall_score
               /\ again.product_name = first.product_name
               /\ again.brand = first.brand
               /\ again.ingredients = first.ingredients
               /\ again.allergens_detected = first.allergens
               /\ again.pfas_detected = first.pfas_compounds
               /\ again.other_concerns = first.other_concerns

\* C15: when the write to the store fails, the run still returns the freshly
\* computed result, the same response it returns when the write succeeds; a
\* failed write never fails the request.
C15_PersistFailureNotFatal ==
    \A r \in Reqs :
        ( /\ pc[r] \in {"Done", "Failed"}
          /\ "score" \in Range(events[r]) )
        => ( /\ pc[r] = "Done"
             /\ response[r] =
                    AnalysisResponse(analysis[r], FALSE, NoAge,
                                     GenerateUrlHash(request[r].product_url))
             /\ analysis[r] =
                    BuildProductAnalysis(request[r], analysis_data[r],
                                         Calculate(analysis_data[r]),
                                         analysis[r].analyzed_at) )

C15_Witness ==
    /\ pc[Caller] = "Done"
    /\ "store_failed" \in Range(events[Caller])
    /\ IsNone(product_analyses[GenerateUrlHash(request[Caller].product_url)])
    /\ response[Caller].status_code = 200
    /\ Len(response[Caller].analysis.allergens_detected) = 2

\* C16: when extraction succeeded and the enrichment call, or the merge of
\* its payload, fails with an error other than a rate limit, the request
\* does not fail: there is no merge and the result is built from the
\* matching output only, as for a rate limit.
C16_EnrichmentFailureDegrades ==
    \A r \in Reqs :
        ( /\ pc[r] \in {"Done", "Failed"}
          /\ \/ "enrich_failed" \in Range(events[r])
             \/ "merge_failed" \in Range(events[r]) )
        => LET matched == MatchIngredientsToDatabases(
                              Get(product_data[r], "ingredients", <<>>),
                              Get(product_data[r], "materials", <<>>),
                              allergen_db[r], pfas_db[r])
               as_rate_limited ==
                    DatabaseOnly(matched, product_data[r],
                        "Rate limit reached - showing database matches only")
           IN  /\ pc[r] = "Done"
               /\ response[r].status_code = 200
               /\ "merge" \notin Range(events[r])
               /\ response[r].analysis.allergens_detected = matched.allergens_detected
               /\ response[r].analysis.pfas_detected = matched.pfas_detected
               /\ response[r].analysis.other_concerns = <<>>
               /\ response[r].analysis =
                    BuildProductAnalysis(request[r], as_rate_limited,
                                         Calculate(as_rate_limited),
                                         response[r].analysis.analyzed_at)

C16_Witness ==
    /\ pc[Caller] = "Done"
    /\ "enrich_failed" \in Range(events[Caller])
    /\ response[Caller].status_code = 200
    /\ Len(response[Caller].analysis.allergens_detected) = 1
    /\ Len(response[Caller].analysis.pfas_detected) = 1

\* C17: a rate-limit signal from the enrichment call or from the fallback
\* call is answered by retrying the call, up to 3 times, before the
\* degraded result (enrichment) or the failure (fallback) is surfaced: when
\* it is surfaced, the call has been made 1 + 3 times.
C17_RetriedBeforeSurfacing ==
    \A r \in Reqs :
        /\ "enrich_rate_limited" \in Range(events[r])
              => Count(events[r], "enrich") = 1 + 3
        /\ "fallback_rate_limited" \in Range(events[r])
              => Count(events[r], "fallback") = 1 + 3

\* C18: when the store is available and get_cached_analysis finds no analysis
\* for the hash, get_review_insights fails with 404 for either value of
\* force_refresh; when the store is unavailable it fails with 503; in both
\* cases nothing is scraped, nothing is extracted and no write to the store
\* is attempted
C18_NoAnalysisIs404Or503 ==
    (rv_pc \notin {"idle", "Lookup"}
            /\ IsNone(product_analyses[rv_request.url_hash]))
        => /\ rv_pc = "Failed"
           /\ rv_response.type = "HTTPException"
           /\ rv_response.status_code = IF db_available THEN 404 ELSE 503
           /\ Range(rv_events) \cap
                    {"scrape", "extract", "extract_query",
                     "reviews_store_failed"} = {}

C18_Witness ==
    /\ rv_pc = "Failed"
    /\ db_available
    /\ IsNone(product_analyses[rv_request.url_hash])
    /\ rv_request.force_refresh
    /\ rv_response.status_code = 404
    /\ "analysis_lookup" \in Range(rv_events)

\* C18 as stated: get_review_insights fails with 404 whenever no cached
\* analysis exists for the hash, without a scrape, an extraction or a write
C18_NoAnalysisIs404 ==
    (rv_pc \notin {"idle", "Lookup"}
            /\ IsNone(product_analyses[rv_request.url_hash]))
        => /\ rv_pc = "Failed"
           /\ rv_response.type = "HTTPException"
           /\ rv_response.status_code = 404
           /\ Range(rv_events) \cap
                    {"scrape", "extract", "extract_query",
                     "reviews_store_failed"} = {}

\* C19: when the cached analysis was found and the reviews scrape gave no
\* result or a result with has_reviews false, get_review_insights fails
\* with 404 "No reviews available", the review extractor is not called and
\* no write to the store is attempted
C19_NoReviewContentIs404 ==
    (rv_pc \notin {"idle", "Lookup", "Scraping"}
            /\ "scrape" \in Range(rv_events)
            /\ (IsNone(rv_scraped) \/ ~rv_scraped.has_reviews))
        => /\ rv_pc = "Failed"
           /\ rv_response = NoReviewsAvailable
           /\ rv_response.status_code = 404
           /\ Range(rv_events) \cap
                    {"extract", "extract_query", "reviews_store_failed"} = {}
           /\ ~IsNone(product_analyses[rv_request.url_hash])

C19_Witness ==
    /\ rv_pc = "Failed"
    /\ "scrape" \in Range(rv_events)
    /\ ~IsNone(rv_scraped)
    /\ ~rv_scraped.has_reviews
    /\ rv_response = NoReviewsAvailable

\* C20: when the review extraction returned a payload whose confidence is
\* below 0.3 or missing, get_review_insights fails with 500 "Failed to
\* extract review insights" and attempts no write to the store; when the
\* confidence is 0.3 or more it returns a ReviewInsights carrying the
\* requested hash
C20_LowConfidenceExtractionFails ==
    (rv_pc \in {"Done", "Failed"} /\ ~IsNone(rv_data))
        => IF Get(rv_data, "confidence", 0) < 30
           THEN /\ rv_pc = "Failed"
                /\ rv_response = ExtractionFailed
                /\ rv_response.status_code = 500
                /\ "reviews_store_failed" \notin Range(rv_events)
           ELSE /\ rv_pc = "Done"
                /\ rv_response.status_code = 200
                /\ rv_response.insights.url_hash = rv_request.url_hash

C20_Witness ==
    /\ rv_pc = "Done"
    /\ ~IsNone(rv_data)
    /\ Get(rv_data, "confidence", 0) = 30
    /\ rv_response.insights.url_hash = rv_request.url_hash

\* C21: a successful get_review_insights leaves its ReviewInsights in the
\* store under the requested hash, from where a following request without
\* force_refresh is served
C21_SuccessfulInsightsAreStored ==
    rv_pc = "Done"
        => review_insights[rv_request.url_hash] = rv_response.insights

\* C22: with two requests for one URL in flight, under every interleaving a
\* request that reaches step 5 is answered with its own ProductAnalysis, a
\* successful upsert replaces the row of that URL as a whole by the row of
\* the request that writes (so the row is always that of the later write),
\* and no other step and no other row is touched
C22_LastWriteWins ==
    [][ /\ \A r \in Reqs :
            (pc[r] = "Persisting" /\ pc'[r] = "Done")
                => LET url_hash == GenerateUrlHash(request[r].product_url)
                       row == DbData(url_hash, request[r].product_url,
                                     StoredResponse(analysis[r]), now)
                   IN  /\ response'[r] =
                            AnalysisResponse(analysis[r], FALSE, NoAge, url_hash)
                       /\ response'[r].analysis = analysis[r]
                       /\ product_analyses' \in
                            {product_analyses,
                             [product_analyses EXCEPT ![url_hash] = row]}
                       /\ events'[r][Len(events'[r])] = "store_ok"
                            => product_analyses'[url_hash] = row
        /\ product_analyses' # product_analyses
            => \E r \in Reqs : pc[r] = "Persisting" /\ pc'[r] = "Done"
      ]_vars

C22_Witness ==
    /\ \A r \in Reqs :
            /\ pc[r] = "Done"
            /\ "score" \in Range(events[r])
            /\ "store_ok" \in Range(events[r])
            /\ request[r].product_url = url_amazon
    /\ analysis["r1"] # analysis["r2"]
    /\ product_analyses[GenerateUrlHash(url_amazon)].raw_analysis
            = StoredResponse(analysis["r2"])
    /\ response["r1"].analysis = analysis["r1"]

\* C23: with at least one detection in any category, get_risk_level of the
\* calculated score is not "Safe"
C23_DetectionNeverSafe ==
    NumDetections(calc_data) >= 1 => GetRiskLevel(calc_score) # "Safe"

\* C24: for exactly one allergen of severity low and confidence 1.0, exactly
\* one PFAS compound of confidence 1.0, no other concern, a name and category
\* that match no risk keyword and an overall confidence of at least 0.7,
\* calculate returns 48 and the overall_score of the ProductAnalysis is 52
C24_LowAllergenAndPfasScore48 ==
    LET allergens == Get(calc_data, "allergens_detected", <<>>)
        pfas == Get(calc_data, "pfas_detected", <<>>)
    IN  ( /\ Len(allergens) = 1
          /\ allergens[1].severity = "low"
          /\ allergens[1].confidence = 100
          /\ Len(pfas) = 1
          /\ pfas[1].confidence = 100
          /\ Get(calc_data, "other_concerns", <<>>) = <<>>
          /\ GetCategoryMultiplier(calc_data.product_name,
                                   calc_data.category) = 100
          /\ Get(calc_data, "confidence", 100) >= 70 )
        => /\ calc_score = 48
           /\ BuildProductAnalysis(
                [product_url |-> url_amazon, force_refresh |-> FALSE],
                calc_data, calc_score, now).overall_score = 52

C24_Witness ==
    /\ Len(Get(calc_data, "allergens_detected", <<>>)) = 1
    /\ calc_data.allergens_detected[1].severity = "low"
    /\ calc_data.allergens_detected[1].confidence = 100
    /\ Len(Get(calc_data, "pfas_detected", <<>>)) = 1
    /\ calc_data.pfas_detected[1].confidence = 100
    /\ calc_data.product_name = txt_Soap
    /\ calc_data.category = <<>>
    /\ Get(calc_data, "confidence", 0) = 70
    /\ calc_score = 48

\* C25: in a run the stages scrape, extraction, matching, enrichment (or the
\* combined call), merge, scoring and store write occur in that order, none
\* twice; the score is the score of the final detection set; step 5 is
\* reached only with a score, and the response of a non-cached run is only
\* there once step 5 is over
C25_StagesInOrder ==
    \A r \in Reqs :
        /\ \A i, j \in DOMAIN events[r] :
              (i < j /\ StageOf(events[r][i]) > 0 /\ StageOf(events[r][j]) > 0)
                  => StageOf(events[r][i]) < StageOf(events[r][j])
        /\ pc[r] = "Persisting" => "score" \in Range(events[r])
        /\ "score" \in Range(events[r])
              => /\ Count(events[r], "score") = 1
                 /\ harm_score[r] = Calculate(analysis_data[r])
                 /\ analysis[r].overall_score = 100 - harm_score[r]
        /\ (pc[r] = "Done" /\ "scrape" \in Range(events[r]))
              => /\ StageOf(events[r][Len(events[r])]) = 7
                 /\ "score" \in Range(events[r])
        /\ ~IsNone(response[r]) => pc[r] \in {"Done", "Failed"}

C25_Witness ==
    \E r \in Reqs :
        /\ pc[r] = "Done"
        /\ events[r] = <<"cache_miss", "scrape", "load_kb", "extract",
                         "extract_query", "match", "enrich", "merge", "score",
                         "store_ok">>

\* C26: once the extraction has returned a payload of confidence 0.3 or
\* more, the matcher has run on its ingredients and materials, before any
\* enrichment call; when the enrichment call is rate limited or fails, the
\* detections that are scored are the matcher's
C26_MatchingNeverSkipped ==
    \A r \in Reqs :
        LET matches ==
                MatchIngredientsToDatabases(
                    Get(product_data[r], "ingredients", <<>>),
                    Get(product_data[r], "materials", <<>>),
                    allergen_db[r], pfas_db[r])
            extracted == /\ ~IsNone(product_data[r])
                         /\ Get(product_data[r], "confidence", 0) >= 30
        IN  /\ extracted
                => /\ Count(events[r], "match") = 1
                   /\ ~IsNone(basic_analysis[r])
                   /\ \A i \in DOMAIN events[r] :
                        events[r][i] = "enrich"
                            => \E j \in 1..(i - 1) : events[r][j] = "match"
            /\ pc[r] = "Enriching"
                => extracted /\ basic_analysis[r] = matches
            /\ Range(events[r]) \cap {"enrich_rate_limited", "enrich_failed"} # {}
                => /\ extracted
                   /\ analysis_data[r].allergens_detected
                        = matches.allergens_detected
                   /\ analysis_data[r].pfas_detected = matches.pfas_detected

C26_Witness ==
    \E r \in Reqs :
        /\ "enrich_failed" \in Range(events[r])
        /\ pc[r] = "Scoring"
        /\ analysis_data[r].allergens_detected # <<>>
        /\ analysis_data[r].pfas_detected # <<>>

\* C27: after the scrape, the Extractor is called on the result if and only
\* if there is a result and its confidence is 0.3 or more; otherwise the run
\* is on the fallback path and the Extractor is never called
C27_ScrapeAcceptedFromThreshold ==
    \A r \in Reqs :
        "scrape" \in Range(events[r])
            => LET accepted == /\ ~IsNone(scrape_result[r])
                               /\ scrape_result[r].confidence >= 30
               IN  /\ accepted
                        => (pc[r] = "Extracting" \/ "extract" \in Range(events[r]))
                   /\ ~accepted
                        => /\ pc[r] # "Extracting"
                           /\ "extract" \notin Range(events[r])
                           /\ pc[r] = "Fallback" \/ "fallback" \in Range(events[r])

\* C28: once the extraction has returned, a payload whose confidence is below
\* 0.3 or missing (the parse-failure payload included) puts the run on the
\* fallback path with no matching and no enrichment call; a payload of
\* confidence 0.3 or more goes to the matching and never to the fallback call
C28_WeakExtractionFallsBack ==
    \A r \in Reqs :
        ~IsNone(product_data[r])
            => IF Get(product_data[r], "confidence", 0) < 30
               THEN /\ Range(events[r]) \cap {"match", "enrich", "merge"} = {}
                    /\ IsNone(basic_analysis[r])
                    /\ pc[r] = "Fallback" \/ "fallback" \in Range(events[r])
               ELSE /\ "match" \in Range(events[r])
                    /\ "fallback" \notin Range(events[r])
                    /\ pc[r] = "Enriching" \/ "enrich" \in Range(events[r])

C28_Witness ==
    \E r \in Reqs :
        /\ product_data[r] = ParseJsonResponse([kind |-> "bad_json"])
        /\ pc[r] = "Done"
        /\ Count(events[r], "fallback") = 1
        /\ Count(events[r], "extract_query") = 1

\* C29: the combined fetch-and-analyse call is never issued after a
\* successful extraction (one that reached the matching), and every finished
\* non-cached run has issued exactly one analysis call, the enrichment call
\* or the combined call
C29_ExactlyOneAnalysisCall ==
    \A r \in Reqs :
        /\ "fallback" \in Range(events[r])
              => Range(events[r]) \cap {"match", "enrich"} = {}
        /\ (pc[r] \in {"Done", "Failed"} /\ "scrape" \in Range(events[r]))
              => Count(events[r], "enrich") + Count(events[r], "fallback") = 1

\* C30: a timeout, an HTTP error status or a network error of the page fetch
\* gives a scrape result of confidence 0.0 with an error message, not an
\* exception; the run goes on with the combined call, without the Extractor,
\* and fails only if the combined call fails
C30_FetchErrorFallsBack ==
    \A r \in Reqs :
        ( /\ ~IsNone(scrape_result[r])
          /\ "error_message" \in DOMAIN scrape_result[r] )
            => /\ scrape_result[r].confidence = 0
               /\ scrape_result[r].error_message \in FetchFailures
               /\ "extract" \notin Range(events[r])
               /\ pc[r] = "Fallback" \/ Count(events[r], "fallback") = 1
               /\ pc[r] = "Failed"
                    => Range(events[r]) \cap
                            {"fallback_rate_limited", "fallback_failed"} # {}
               /\ pc[r] = "Done" => response[r].status_code = 200

C30_Witness ==
    \E r \in Reqs :
        /\ ~IsNone(scrape_result[r])
        /\ Get(scrape_result[r], "error_message", "") = "HTTP 503"
        /\ pc[r] = "Done"
        /\ response[r].status_code = 200
        /\ ~response[r].cached
        /\ "fallback" \in Range(events[r])

\* C31: one multiplier is applied, once: when the lower-cased name or
\* category contains keywords of the table it is the multiplier of the first
\* of them in table order, whatever generic danger word is there as well
\* ("Disinfectant Bleach" gets 1.2, not 1.3 and not 1.2 * 1.3); when neither
\* contains any keyword it is 1.0
C31_FirstMatchingMultiplierOnly ==
    LET product_lower == Lower(calc_data.product_name)
        category_lower == Lower(calc_data.category)
        Found(kw) == Contains(product_lower, kw) \/ Contains(category_lower, kw)
        table == {i \in DOMAIN CATEGORY_MULTIPLIERS :
                        Found(CATEGORY_MULTIPLIERS[i].keyword)}
        generic == {i \in DOMAIN high_risk_keywords : Found(high_risk_keywords[i])}
        m == GetCategoryMultiplier(calc_data.product_name, calc_data.category)
        points == SeverityWeighted(Get(calc_data, "allergens_detected", <<>>))
                    + PfasWeighted(Get(calc_data, "pfas_detected", <<>>))
                    + SeverityWeighted(Get(calc_data, "other_concerns", <<>>))
        applied == IF table # {}
                   THEN CATEGORY_MULTIPLIERS[
                            CHOOSE i \in table : \A j \in table : i <= j].multiplier
                   ELSE 100
    IN  /\ table # {} => m = applied
        /\ (table = {} /\ generic = {}) => m = 100
        /\ ( /\ table # {} \/ generic = {}
             /\ Get(calc_data, "confidence", 100) >= 70
             /\ points * applied >= 250000 )
                => calc_score = Min(100, (points * applied) \div 10000)

C31_Witness ==
    /\ calc_data.product_name = txt_DisinfectantBleach
    /\ Len(Get(calc_data, "allergens_detected", <<>>)) = 1
    /\ calc_data.allergens_detected[1].severity = "high"
    /\ calc_data.allergens_detected[1].confidence = 100
    /\ NumDetections(calc_data) = 1
    /\ Get(calc_data, "confidence", 100) >= 70
    /\ calc_score = 42

\* C32: a generic danger word in the category, no table keyword being in the
\* name or the category, gives the multiplier 1.3, as it does in the name
C32_DangerWordInCategoryCounts ==
    LET product_lower == Lower(calc_data.product_name)
        category_lower == Lower(calc_data.category)
        table == {i \in DOMAIN CATEGORY_MULTIPLIERS :
                    \/ Contains(product_lower, CATEGORY_MULTIPLIERS[i].keyword)
                    \/ Contains(category_lower, CATEGORY_MULTIPLIERS[i].keyword)}
    IN  ( /\ table = {}
          /\ \E i \in DOMAIN high_risk_keywords :
                \/ Contains(product_lower, high_risk_keywords[i])
                \/ Contains(category_lower, high_risk_keywords[i]) )
            => GetCategoryMultiplier(calc_data.product_name,
                                     calc_data.category) = 130

\* C33: for an overall confidence c below 0.7 the score is the floored and
\* capped integer part of base_score * multiplier + (0.7 - c) * 20, the
\* penalty as the double holds it (at most one unit in the last place below
\* the real value, which shows only when base_score is 0); for c of 0.7 or
\* more nothing is added; and with the same detections and label no lower
\* confidence gives a lower score
C33_PenaltyAfterMultiplier ==
    LET points == SeverityWeighted(Get(calc_data, "allergens_detected", <<>>))
                    + PfasWeighted(Get(calc_data, "pfas_detected", <<>>))
                    + SeverityWeighted(Get(calc_data, "other_concerns", <<>>))
        base == points * GetCategoryMultiplier(calc_data.product_name,
                                               calc_data.category)
        c == Get(calc_data, "confidence", 100)
        exact == IF c < 70 THEN base + (70 - c) * 2000 ELSE base
        Final(x) == Min(100, Trunc(IF NumDetections(calc_data) >= 1 /\ x < 250000
                                   THEN 250000 ELSE x, 10000))
    IN  /\ calc_score \in {Final(exact), Final(exact - 1)}
        /\ (base > 0 \/ c >= 70) => calc_score = Final(exact)
        /\ c >= 70 => calc_score = Final(base)
        /\ \A lower \in {5 * k : k \in 0..20} :
                lower <= c
                    => Calculate(Put(calc_data, "confidence", lower)) >= calc_score

C33_Witness ==
    /\ calc_data.product_name = txt_Pesticide
    /\ Get(calc_data, "confidence", 100) = 25
    /\ Len(Get(calc_data, "allergens_detected", <<>>)) = 1
    /\ calc_data.allergens_detected[1].severity = "high"
    /\ calc_data.allergens_detected[1].confidence = 100
    /\ NumDetections(calc_data) = 1
    /\ calc_score = 58

\* the overall confidence calculate reads for the caution bonus
ScoringConfidence(analysis_data_) == Get(analysis_data_, "confidence", 100)

\* C34: in every freshly computed result the reported confidence is the
\* overall confidence the calculator used for the caution bonus, also when
\* the scored payload carries no overall confidence.
C34_ReportedConfidenceIsScored ==
    \A r \in Reqs :
        (pc[r] = "Persisting" /\ Count(events[r], "score") = 1)
            => analysis[r].confidence = ScoringConfidence(analysis_data[r])

\* C35 as stated: once a record exists for the fingerprint, every non-forced
\* Analyze of the URL is a cache hit
C35_PersistedAlwaysHit ==
    [][\A r \in Reqs :
          ( /\ pc[r] = "CacheCheck" /\ pc'[r] # "CacheCheck"
            /\ ~request[r].force_refresh
            /\ ~IsNone(product_analyses[GenerateUrlHash(request[r].product_url)]) )
              => /\ pc'[r] = "Done"
                 /\ response'[r].cached]_vars

\* C35: cached analyses never expire. No step removes a record; a record
\* changes only by the store write of a run that was not served from the
\* cache (forced, missed or failed lookup), which puts that run's result in
\* its place; and a non-forced Analyze of a URL with a record is a cache hit
\* whose age is the time since the record's analyzed_at, whatever that is,
\* unless the lookup query itself fails, and then the run is computed fresh.
C35_CachedNeverExpires ==
    [][ /\ \A h \in UrlHashes :
              ~IsNone(product_analyses[h]) => ~IsNone(product_analyses'[h])
        /\ \A h \in UrlHashes :
              product_analyses'[h] # product_analyses[h]
                => \E r \in Reqs :
                      /\ pc[r] = "Persisting"
                      /\ GenerateUrlHash(request[r].product_url) = h
                      /\ events[r][1] \in {"cache_skipped", "cache_miss",
                                           "cache_failed"}
                      /\ product_analyses'[h] =
                            DbData(h, request[r].product_url,
                                   StoredResponse(analysis[r]), now)
        /\ \A r \in Reqs :
              LET row == product_analyses[GenerateUrlHash(request[r].product_url)]
              IN  ( /\ pc[r] = "CacheCheck" /\ pc'[r] # "CacheCheck"
                    /\ ~request[r].force_refresh
                    /\ ~IsNone(row) )
                    => \/ /\ pc'[r] = "Done"
                          /\ events'[r] = <<"cache_hit">>
                          /\ response'[r].cached
                          /\ response'[r].cache_age_seconds = now - row.analyzed_at
                          /\ product_analyses' = product_analyses
                       \/ /\ pc'[r] = "Scraping"
                          /\ events'[r] = <<"cache_failed">> ]_vars

C35_Witness ==
    \E r \in Reqs :
        /\ pc[r] = "Done"
        /\ events[r] = <<"cache_hit">>
        /\ ~request[r].force_refresh
        /\ response[r].cached
        /\ response[r].cache_age_seconds >= 1
        /\ product_analyses[GenerateUrlHash(request[r].product_url)].analyzed_at < now

\* C36: while the store is unavailable no request reads or writes it: the
\* lookup is skipped, both reference lists are empty (so the matching finds
\* nothing), no record is ever written, and a finished request was computed
\* fresh, is returned with cached false and no cache age, and skipped the
\* store write. Whether the store is available or not, and whatever the
\* reference lists loaded, a request fails only by a fault of the Extractor
\* or of the fallback call.
C36_UnavailableStoreUntouched ==
    /\ ~db_available
        => /\ \A h \in UrlHashes : IsNone(product_analyses[h])
           /\ \A r \in Reqs :
                /\ events[r] # <<>> => events[r][1] = "cache_skipped"
                /\ Range(events[r]) \cap {"cache_miss", "cache_hit", "cache_failed",
                                          "store_ok", "store_failed"} = {}
                /\ IsNone(cached_analysis[r])
                /\ "scrape" \in Range(events[r])
                      => allergen_db[r] = <<>> /\ pfas_db[r] = <<>>
                /\ "match" \in Range(events[r])
                      => /\ basic_analysis[r].allergens_detected = <<>>
                         /\ basic_analysis[r].pfas_detected = <<>>
                /\ pc[r] = "Done"
                      => /\ ~response[r].cached
                         /\ response[r].cache_age_seconds = NoAge
                         /\ response[r].status_code = 200
                         /\ Count(events[r], "score") = 1
                         /\ events[r][Len(events[r])] = "store_skipped"
    /\ \A r \in Reqs :
          pc[r] = "Failed"
            => Range(events[r]) \cap {"extract_raised", "fallback_rate_limited",
                                      "fallback_failed"} # {}

C36_Witness ==
    \E r \in Reqs :
        /\ ~db_available
        /\ pc[r] = "Done"
        /\ ~request[r].force_refresh
        /\ "merge" \in Range(events[r])
        /\ events[r][Len(events[r])] = "store_skipped"
        /\ ~response[r].cached

\* C37: with the store available, every run that was not served from the
\* cache and reached the scoring makes exactly one store write, right after
\* the scoring and before it returns, whatever produced the scored payload;
\* a write that succeeds leaves the run's result as the record of its
\* fingerprint. No other run writes. A cache hit serves the record as it is
\* stored, an error-derived or degraded one included.
C37_EveryScoredRunStoresOnce ==
    \A r \in Reqs :
        LET writes == Count(events[r], "store_ok") + Count(events[r], "store_failed")
            n == Len(events[r])
            url_hash == GenerateUrlHash(request[r].product_url)
        IN  /\ (pc[r] = "Done" /\ "score" \in Range(events[r]) /\ db_available)
                => /\ writes = 1
                   /\ events[r][n - 1] = "score"
                   /\ events[r][n] \in {"store_ok", "store_failed"}
                   /\ events[r][n] = "store_ok"
                        => product_analyses[url_hash] =
                              DbData(url_hash, request[r].product_url,
                                     StoredResponse(analysis[r]), now)
            /\ (pc[r] # "Done" \/ "score" \notin Range(events[r])) => writes = 0
            /\ (pc[r] = "Done" /\ events[r] = <<"cache_hit">>)
                => /\ ~IsNone(product_analyses[url_hash])
                   /\ response[r].cached
                   /\ response[r].analysis =
                        CachedProductAnalysis(product_analyses[url_hash])

C37_Witness ==
    \E r \in Reqs :
        LET row == product_analyses[GenerateUrlHash(request[r].product_url)]
        IN  /\ pc[r] = "Done"
            /\ events[r] = <<"cache_hit">>
            /\ ~IsNone(row)
            /\ row.raw_analysis.analysis.confidence = 10
            /\ row.product_name = txt_Unknown
            /\ response[r].analysis.product_name = txt_Unknown

\* C38: the result of a run in database-only mode carries the product name,
\* the brand and the ingredients of the extracted product and the retailer
\* the scrape determined
C38_DegradedKeepsIdentity ==
    \A r \in Reqs :
        ( /\ pc[r] = "Done"
          /\ Range(events[r]) \cap {"enrich_rate_limited", "enrich_failed",
                                    "merge_failed"} # {} )
            => /\ response[r].analysis.product_name =
                    Get(product_data[r], "product_name", txt_Unknown_Product)
               /\ response[r].analysis.brand =
                    Get(product_data[r], "brand", "Unknown")
               /\ response[r].analysis.ingredients =
                    Get(product_data[r], "ingredients", <<>>)
               /\ response[r].analysis.retailer = scrape_result[r].retailer

\* C5: for all inputs, calculate returns an integer h with 0 <= h <= 100
C5_ScoreBounds == calc_score \in 0..100

\* C5 witness: an input whose uncapped score is above 100 was calculated
C5_Witness == calc_score = 100 /\ CalculateNoCap(calc_data) > 100

\* C6: with at least one detection in any category, the score is at least 25
C6_MinimumFloor == NumDetections(calc_data) >= 1 => calc_score >= 25

\* C6 witness: detections whose points stay below 25 were scored
C6_Witness ==
    /\ NumDetections(calc_data) >= 1
    /\ CalculateNoFloor(calc_data) < 25
    /\ calc_score = 25

\* C7: adding one detection (confidence in [0,1]), everything else
\* unchanged, never decreases the score
C7_AddNeverDecreases == [][calc_op' = "add" => calc_score' >= calc_score]_vars

\* C7 witness: a second detection was added and the score is above the floor
C7_Witness ==
    calc_op = "add" /\ NumDetections(calc_data) = 2 /\ calc_score \in 26..99

\* C8: raising one allergen's or other concern's severity along
\* low < moderate < high < severe never decreases the score
C8_RaiseNeverDecreases ==
    [][calc_op' = "raise" => calc_score' >= calc_score]_vars

\* C8 witness: a severity was raised and the score is above the floor
C8_Witness == calc_op = "raise" /\ calc_score \in 26..99

====
